---- MODULE Spec2Model ----
(***************************************************************************)
(* Room lifecycle of the 2-player co-op game server:                       *)
(*   multiplayer/gameServer.js   (room registry, startGame, _tick,         *)
(*                                _endGame, _destroyRoom)                  *)
(*   multiplayer/socketHandler.js (create_room / join_room / disconnect    *)
(*                                handlers and the 3-second countdown)     *)
(*                                                                         *)
(* Room objects live in `heap` and are referred to by their index, because *)
(* timer callbacks keep a reference to a room object after the registry    *)
(* has dropped it.  `rooms` is the registry Map (join code -> room).       *)
(* Pending setInterval/setTimeout callbacks are kept in `timers` in the    *)
(* order in which they were scheduled.                                     *)
(*                                                                         *)
(* The simulation inside a tick (_updatePlayers, _checkCollisions,         *)
(* _updateWave, ...) is modelled on the state of one room, `sim`, under    *)
(* specifications of its own; the lifecycle specification leaves `sim`     *)
(* alone.  Times are in ms, lengths in px, directions in 1/1000.           *)
(***************************************************************************)
EXTENDS Integers, Sequences, FiniteSets, TLC

VARIABLES rooms, heap, timers, intervals, connected, out, sim

vars == <<rooms, heap, timers, intervals, connected, out, sim>>

\* ---------------------------------------------------------------- bounds
NSock    == 3      \* socket connections the process sees
NCodes   == 2      \* join codes the generator can draw
MaxRooms == 2      \* room objects ever allocated
MaxTick  == 1      \* ticks simulated per room
MaxLoad  == 4      \* open connections plus registered rooms
MaxLive  == 1      \* rooms registered at a time, under fairness

Sockets == 1..NSock
Codes   == 1..NCodes
RoomIds == 1..MaxRooms

\* ------------------------------------------------------- program constants
COUNTDOWN_SECONDS == 3
FIRST_WAVE        == 1

None == 0

\* --------------------------------------------------------------- strings
\* A join code typed by a client: the code it spells and whether it is
\* spelled in lower case.  Generated codes are upper case.
CodeStrings == [c : Codes, lower : BOOLEAN]
EmptyString == [c |-> None, lower |-> FALSE]
JoinPayloads == CodeStrings \cup {EmptyString}

ToUpperCase(s) == [s EXCEPT !.lower = FALSE]

\* rooms.get(key): the Map is keyed by the generated (upper-case) codes
RoomsGet(reg, s) == IF s.lower \/ s.c = None THEN None ELSE reg[s.c]

\* --------------------------------------------------------------- players
Player(s, isHost) ==
  [socketId |-> s, isHost |-> isHost, alive |-> TRUE, score |-> 0, kills |-> 0]

PlayerIds(room) == {room.players[i].socketId : i \in 1..Len(room.players)}
HasPlayer(room, s) == s \in PlayerIds(room)
PlayerCount(room) == Len(room.players)

RECURSIVE SeqFilterOut(_, _)
SeqFilterOut(ps, s) ==
  IF ps = <<>> THEN <<>>
  ELSE IF Head(ps).socketId = s THEN SeqFilterOut(Tail(ps), s)
       ELSE <<Head(ps)>> \o SeqFilterOut(Tail(ps), s)

\* room.players[socket.id] = {...}: an existing key keeps its position
AddPlayer(room, s, isHost) ==
  IF HasPlayer(room, s)
  THEN [room EXCEPT !.players =
          [i \in 1..Len(room.players) |->
             IF room.players[i].socketId = s THEN Player(s, isHost)
             ELSE room.players[i]]]
  ELSE [room EXCEPT !.players = Append(room.players, Player(s, isHost))]

\* ----------------------------------------------------------------- events
\* An emitted event: its name, the sockets it goes to (socket.emit), or the
\* socket.io room it goes to (io.to(code).emit), and its payload (a number:
\* seconds, wave, join code, socket id; a text: reason, error message).
Ev(name, to, n, msg) ==
  [ev |-> name, to |-> to, io |-> None, n |-> n, msg |-> msg]

\* io.to(code).emit(name, ...)
IoEmit(code, name, n) ==
  [ev |-> name, to |-> {}, io |-> code, n |-> n, msg |-> ""]

\* _broadcastToRoom: one emit per player currently in the room
BroadcastToRoom(room, name, n, msg) == <<Ev(name, PlayerIds(room), n, msg)>>

\* ---------------------------------------------------------------- rooms
\* The part of the state the registry functions read and write.
World == [rooms |-> rooms, heap |-> heap, timers |-> timers,
          intervals |-> intervals, out |-> <<>>]

\* The room object createRoom allocates.  `started` counts the calls of
\* startGame on the room and numbers its interval handles; `left` records
\* that a player has left the room.
NewRoom(code) ==
  [code |-> code, state |-> "waiting", players |-> <<>>,
   wave |-> FIRST_WAVE, tick |-> 0, score |-> 0,
   enemiesKilledThisWave |-> 0, intervalId |-> None,
   started |-> 0, left |-> FALSE]


\* ------------------------------------------------------------- registry
\* variant: a generator that returns the drawn code without looking it up
GenerateRoomCode_Unchecked(reg) == Codes

\* generateRoomCode: the codes a call can return.  A drawn code that is in
\* the Map is drawn again, so the result is any code the Map does not hold.
GenerateRoomCode(reg) == {c \in Codes : reg[c] = None}

\* keys of the Map whose room has player s, and the first of them in the
\* Map's iteration order (rooms.entries() iterates in insertion order; a
\* room is inserted once, when it is allocated, so this is heap order)
KeysWithPlayer(w, s) ==
  {c \in Codes : w.rooms[c] # None /\ HasPlayer(w.heap[w.rooms[c]], s)}

FirstKey(w, ks) == CHOOSE c \in ks : \A d \in ks : w.rooms[c] <= w.rooms[d]

\* clearInterval(room.intervalId)
ClearInterval(ivs, r, h) == ivs \ {<<r, h>>}

\* _destroyRoom(code)
DestroyRoom(w, code) ==
  LET r == w.rooms[code] IN
  IF r = None THEN w
  ELSE [w EXCEPT
          !.intervals = IF w.heap[r].intervalId # None
                        THEN ClearInterval(@, r, w.heap[r].intervalId)
                        ELSE @,
          !.rooms[code] = None]

\* variant: startGame without the setInterval
StartGame_NoInterval(w, r) ==
  LET emit == BroadcastToRoom(w.heap[r], "game_start", w.heap[r].wave, "")
  IN [w EXCEPT !.heap[r].state = "playing",
               !.out           = @ \o emit]

\* startGame(room)
StartGame(w, r) ==
  LET h    == w.heap[r].started + 1
      emit == BroadcastToRoom(w.heap[r], "game_start", w.heap[r].wave, "")
  IN [w EXCEPT
        !.heap[r].state      = "playing",
        !.heap[r].intervalId = h,
        !.heap[r].started    = h,
        !.intervals          = @ \cup {<<r, h>>},
        !.out                = @ \o emit]

DestroyTimer(r)   == [kind |-> "destroy", room |-> r, countdown |-> 0]
CountdownTimer(r) == [kind |-> "countdown", room |-> r,
                      countdown |-> COUNTDOWN_SECONDS]

\* variant: _endGame without the destruction timeout
EndGame_NoTimeout(w, r, reason) ==
  IF w.heap[r].state = "gameover" THEN w
  ELSE [w EXCEPT
          !.heap[r].state      = "gameover",
          !.heap[r].intervalId = None,
          !.intervals = IF w.heap[r].intervalId # None
                        THEN ClearInterval(@, r, w.heap[r].intervalId)
                        ELSE @,
          !.out    = @ \o BroadcastToRoom(w.heap[r], "game_over", w.heap[r].wave, reason)]

\* _endGame(room, reason)
EndGame(w, r, reason) ==
  IF w.heap[r].state = "gameover" THEN w
  ELSE [w EXCEPT
          !.heap[r].state      = "gameover",
          !.heap[r].intervalId = None,
          !.intervals = IF w.heap[r].intervalId # None
                        THEN ClearInterval(@, r, w.heap[r].intervalId)
                        ELSE @,
          !.out    = @ \o BroadcastToRoom(w.heap[r], "game_over", w.heap[r].wave, reason),
          !.timers = Append(@, DestroyTimer(r))]

\* leaveRoom(socketId)
LeaveRoom(w, s) ==
  LET ks == KeysWithPlayer(w, s) IN
  IF ks = {} THEN w
  ELSE
    LET code == FirstKey(w, ks)
        r    == w.rooms[code]
        w1   == [w EXCEPT !.heap[r].players = SeqFilterOut(@, s),
                          !.heap[r].left    = TRUE]
    IN IF PlayerCount(w1.heap[r]) = 0
       THEN DestroyRoom(w1, code)
       ELSE LET w2 == [w1 EXCEPT !.out = @ \o
                         BroadcastToRoom(w1.heap[r], "partner_left", 0, "")]
            IN IF w2.heap[r].state = "playing"
               THEN EndGame(w2, r, "partner_disconnected")
               ELSE w2

\* variant: the full check ahead of the phase check
JoinError_FullFirst(w, code) ==
  LET r == RoomsGet(w.rooms, ToUpperCase(code)) IN
  IF r = None                             THEN "Room not found"
  ELSE IF PlayerCount(w.heap[r]) >= 2     THEN "Room is full"
  ELSE IF w.heap[r].state # "waiting"     THEN "Game already started"
  ELSE "none"

\* variant: the full check compares with > instead of >=
JoinError_OffByOne(w, code) ==
  LET r == RoomsGet(w.rooms, ToUpperCase(code)) IN
  IF r = None                             THEN "Room not found"
  ELSE IF w.heap[r].state # "waiting"     THEN "Game already started"
  ELSE IF PlayerCount(w.heap[r]) > 2      THEN "Room is full"
  ELSE "none"

\* joinRoom(code, socket, user): the error it returns, "none" if it admits
JoinError(w, code) ==
  LET r == RoomsGet(w.rooms, ToUpperCase(code)) IN
  IF r = None                             THEN "Room not found"
  ELSE IF w.heap[r].state # "waiting"     THEN "Game already started"
  ELSE IF PlayerCount(w.heap[r]) >= 2     THEN "Room is full"
  ELSE "none"

\* variant: the player is added before the phase and full checks
JoinRoom_AddFirst(w, code, s) ==
  LET r == RoomsGet(w.rooms, ToUpperCase(code)) IN
  IF r = None
  THEN [error |-> JoinError(w, code), room |-> None, w |-> w]
  ELSE [error |-> JoinError(w, code),
        room |-> IF JoinError(w, code) = "none" THEN r ELSE None,
        w |-> [w EXCEPT !.heap[r] = AddPlayer(@, s, FALSE)]]

\* joinRoom(code, socket, user): the error, the room joined and the world
JoinRoom(w, code, s) ==
  LET r == RoomsGet(w.rooms, ToUpperCase(code)) IN
  IF JoinError(w, code) # "none"
  THEN [error |-> JoinError(w, code), room |-> None, w |-> w]
  ELSE [error |-> "none", room |-> r,
        w |-> [w EXCEPT !.heap[r] = AddPlayer(@, s, FALSE)]]

\* createRoom(hostSocket, hostUser), with the code the generator returned
CreateRoom(w, code, s) ==
  LET r == Len(w.heap) + 1 IN
  [w EXCEPT !.heap = Append(@, AddPlayer(NewRoom(code), s, TRUE)),
            !.rooms[code] = r]


\* ----------------------------------------------------------------- tick
\* The tick as the room lifecycle sees it.  Movement, bullets, enemies,
\* powerups and the wave counters stay inside the room and are left out;
\* what they decide for the lifecycle, which players are revived and which
\* are killed in the tick, is a parameter of the tick.  A revived player
\* has half of its health and is not killed in the same tick.
\* _revivePlayer, for the dead players whose revive countdown elapsed in
\* this tick (rev), in the order of the player map
RECURSIVE UpdatePlayers(_, _, _, _)
UpdatePlayers(w, r, i, rev) ==
  IF i > Len(w.heap[r].players) THEN w
  ELSE LET p == w.heap[r].players[i] IN
       IF ~p.alive /\ p.socketId \in rev
       THEN UpdatePlayers(
              [w EXCEPT !.heap[r].players[i].alive = TRUE,
                        !.out = @ \o BroadcastToRoom(w.heap[r],
                                       "player_revived", p.socketId, "")],
              r, i + 1, rev)
       ELSE UpdatePlayers(w, r, i + 1, rev)

PlayerIndex(room, s) ==
  CHOOSE i \in 1..Len(room.players) : room.players[i].socketId = s

\* _killPlayer(room, player)
KillPlayer(w, r, s) ==
  LET i  == PlayerIndex(w.heap[r], s)
      w1 == [w EXCEPT !.heap[r].players[i].alive = FALSE,
                      !.out = @ \o BroadcastToRoom(w.heap[r],
                                     "player_died", s, "")]
      allDead == \A j \in 1..Len(w1.heap[r].players) :
                   ~w1.heap[r].players[j].alive
  IN IF allDead THEN EndGame(w1, r, "all_dead") ELSE w1

\* _checkCollisions, enemies vs players: the players whose health reaches
\* zero in this tick (kill), in the order in which that happens
RECURSIVE CheckCollisions(_, _, _)
CheckCollisions(w, r, kill) ==
  IF kill = <<>> THEN w
  ELSE CheckCollisions(KillPlayer(w, r, Head(kill)), r, Tail(kill))

\* _broadcastState(room)
BroadcastState(w, r) ==
  [w EXCEPT !.out = @ \o BroadcastToRoom(w.heap[r], "state",
                                         w.heap[r].wave, "")]

\* _tick(room)
TickRoom(w, r, rev, kill) ==
  IF w.heap[r].state # "playing" THEN w
  ELSE LET w1 == [w EXCEPT !.heap[r].tick = @ + 1]
           w2 == UpdatePlayers(w1, r, 1, rev)
           w3 == CheckCollisions(w2, r, kill)
       IN BroadcastState(w3, r)

AlivePlayers(room) ==
  {room.players[i].socketId : i \in {j \in 1..Len(room.players) :
                                        room.players[j].alive}}
DeadPlayers(room) == PlayerIds(room) \ AlivePlayers(room)

\* the orders in which the members of S can be hit
Orders(S) ==
  {q \in UNION {[1..n -> S] : n \in 0..Cardinality(S)} :
     \A i, j \in DOMAIN q : i # j => q[i] # q[j]}


\* -------------------------------------------------------------- handlers
RemoveAt(q, i) == SubSeq(q, 1, i - 1) \o SubSeq(q, i + 1, Len(q))

\* A room object nothing refers to any more (not the registry, no pending
\* timer callback, no running interval) is reclaimed by the runtime.
Collected == [NewRoom(None) EXCEPT !.state = "collected"]

Referenced(w, r) ==
  \/ \E c \in Codes : w.rooms[c] = r
  \/ \E i \in DOMAIN w.timers : w.timers[i].room = r
  \/ \E iv \in w.intervals : iv[1] = r

Reclaim(w) ==
  [w EXCEPT !.heap = [r \in DOMAIN w.heap |->
                        IF Referenced(w, r) THEN w.heap[r] ELSE Collected]]

\* the state after a handler that leaves the world as w
Commit(w) ==
  LET v == Reclaim(w) IN
  /\ rooms' = v.rooms
  /\ heap' = v.heap
  /\ timers' = v.timers
  /\ intervals' = v.intervals
  /\ out' = v.out
  /\ sim' = sim

Emit(w, evs) == [w EXCEPT !.out = @ \o evs]

Registered == {c \in Codes : rooms[c] # None}

\* no room is being simulated
NoSim == [kind |-> "none"]

Init ==
  /\ rooms     = [c \in Codes |-> None]
  /\ heap      = <<>>
  /\ timers    = <<>>
  /\ intervals = {}
  /\ connected = Sockets
  /\ out       = <<>>
  /\ sim       = NoSim

\* socket.on('create_room').  With no free code the generator recurses
\* until the stack overflows and the handler catches the error.
HandleCreateRoom(w, s, code) ==
  IF GenerateRoomCode(w.rooms) = {}
  THEN Emit(w, <<Ev("error", {s}, 0, "Failed to create room")>>)
  ELSE Emit(CreateRoom(w, code, s), <<Ev("room_created", {s}, code, "")>>)

OnCreateRoom(s) ==
  /\ s \in connected
  /\ Len(heap) < MaxRooms
  /\ Cardinality(Registered) + Cardinality(connected) < MaxLoad
  /\ UNCHANGED connected
  /\ \E code \in GenerateRoomCode(rooms) :
       Commit(HandleCreateRoom(World, s, code))

\* the body of the join_room handler after a successful joinRoom
Joined(w, r, s) ==
  LET room == w.heap[r]
      n    == PlayerCount(room)
      w1   == Emit(w, <<Ev("room_joined", {s}, room.code, ""),
                        IoEmit(room.code, "room_updated", n)>>)
  IN IF n = 2
     THEN [Emit(w1, <<IoEmit(room.code, "countdown", COUNTDOWN_SECONDS)>>)
             EXCEPT !.timers = Append(@, CountdownTimer(r))]
     ELSE w1

\* socket.on('join_room')
HandleJoinRoom(w, s, code) ==
  IF code = EmptyString
  THEN Emit(w, <<Ev("error", {s}, 0, "Room code required")>>)
  ELSE LET res == JoinRoom(w, code, s) IN
       IF res.error # "none"
       THEN Emit(res.w, <<Ev("error", {s}, 0, res.error)>>)
       ELSE Joined(res.w, res.room, s)

\* A request the handler rejects changes nothing and is no step.
Rejected(w) == Len(w.out) = 1 /\ w.out[1].ev = "error"

OnJoinRoom(s, code) ==
  /\ s \in connected
  /\ ~Rejected(HandleJoinRoom(World, s, code))
  /\ UNCHANGED connected
  /\ Commit(HandleJoinRoom(World, s, code))

\* socket.on('disconnect')
OnDisconnect(s) ==
  /\ s \in connected
  /\ Commit(LeaveRoom(World, s))
  /\ connected' = connected \ {s}

\* The 1000 ms interval of the countdown.  Intervals of equal period fire
\* in the order in which they were set: the k-th firing of a later timer
\* comes after the k-th firing of an earlier one.
CountdownFire(i) ==
  /\ i \in DOMAIN timers
  /\ timers[i].kind = "countdown"
  /\ \A j \in 1..(i - 1) :
       timers[j].kind = "countdown" =>
         timers[j].countdown < timers[i].countdown
  /\ UNCHANGED connected
  /\ LET r         == timers[i].room
         countdown == timers[i].countdown - 1
     IN IF countdown > 0
        THEN Commit(Emit([World EXCEPT !.timers[i].countdown = countdown],
                         <<IoEmit(heap[r].code, "countdown", countdown)>>))
        ELSE Commit(StartGame([World EXCEPT !.timers = RemoveAt(@, i)], r))

\* The 30000 ms timeout set by _endGame.  Every timer set before it has a
\* shorter or equal delay and has fired by the time it does.
DestroyFire(i) ==
  /\ i \in DOMAIN timers
  /\ i = 1
  /\ timers[i].kind = "destroy"
  /\ UNCHANGED connected
  /\ Commit(DestroyRoom([World EXCEPT !.timers = RemoveAt(@, i)],
                        heap[timers[i].room].code))

\* The TICK_MS interval set by startGame
Tick(r, h) ==
  /\ <<r, h>> \in intervals
  /\ heap[r].state = "playing"
  /\ heap[r].tick < MaxTick
  /\ UNCHANGED connected
  /\ \E rev \in SUBSET DeadPlayers(heap[r]) :
       \E kill \in Orders(AlivePlayers(heap[r])) :
         Commit(TickRoom(World, r, rev, kill))

Next ==
  \/ \E s \in Sockets : OnCreateRoom(s)
  \/ \E s \in Sockets : \E code \in JoinPayloads : OnJoinRoom(s, code)
  \/ \E s \in Sockets : OnDisconnect(s)
  \/ \E i \in 1..(MaxRooms * NSock) : CountdownFire(i)
  \/ \E i \in 1..(MaxRooms * NSock) : DestroyFire(i)
  \/ \E r \in RoomIds : \E h \in 1..NSock : Tick(r, h)

Spec == Init /\ [][Next]_vars

\* Timers that are due fire: the event loop runs every callback whose
\* delay has elapsed.
\* The liveness check follows MaxLive registered rooms at a time.
OnCreateRoomFair(s) ==
  /\ Cardinality(Registered) < MaxLive
  /\ OnCreateRoom(s)

NextFair ==
  \/ \E s \in Sockets : OnCreateRoomFair(s)
  \/ \E s \in Sockets : \E code \in JoinPayloads : OnJoinRoom(s, code)
  \/ \E s \in Sockets : OnDisconnect(s)
  \/ \E i \in 1..(MaxRooms * NSock) : CountdownFire(i)
  \/ \E i \in 1..(MaxRooms * NSock) : DestroyFire(i)
  \/ \E r \in RoomIds : \E h \in 1..NSock : Tick(r, h)

SpecFair ==
  /\ Init /\ [][NextFair]_vars
  /\ WF_vars(\E i \in 1..(MaxRooms * NSock) : CountdownFire(i))
  /\ WF_vars(\E i \in 1..(MaxRooms * NSock) : DestroyFire(i))


\* ==================================================== simulation: players
CANVAS_W        == 1400
CANVAS_H        == 800
PLAYER_SPEED    == 250     \* px per second
PLAYER_MAX_HP   == 100
PLAYER_RADIUS   == 18
BULLET_SPEED    == 620
MAX_DT          == 100     \* a tick advances the room by at most 0.1 s
HOST_START_X    == 400
GUEST_START_X   == 1000
DASH_DURATION   == 150
DASH_COOLDOWN   == 3000
DASH_FACTOR     == 6
FIRE_RATE       == 130
RAPID_FIRE_RATE == 60
BULLET_LIFE     == 2500
SPREAD_2        == 8       \* 0.08 rad, in 1/100 rad
SPREAD_3        == 14      \* 0.14 rad
REVIVE_TIME     == 10000

\* health is kept in 1/10000 of a point: contact damage is a multiple of it
HP(n) == n * 10000

Max(a, b) == IF a >= b THEN a ELSE b
Min(a, b) == IF a <= b THEN a ELSE b
Sgn(a) == IF a > 0 THEN 1 ELSE IF a < 0 THEN -1 ELSE 0
Bit(b) == IF b THEN 1 ELSE 0

SimInput0(startX) ==
  [up |-> FALSE, down |-> FALSE, left |-> FALSE, right |-> FALSE,
   shooting |-> FALSE, dash |-> FALSE,
   mouseX |-> startX, mouseY |-> CANVAS_H \div 2]

\* the player object _addPlayer stores
SimPlayer(s, isHost) ==
  LET startX == IF isHost THEN HOST_START_X ELSE GUEST_START_X IN
  [socketId |-> s, x |-> startX, y |-> CANVAS_H \div 2,
   hp |-> HP(PLAYER_MAX_HP), maxHp |-> HP(PLAYER_MAX_HP),
   alive |-> TRUE, isHost |-> isHost, input |-> SimInput0(startX),
   shootCooldown |-> 0, reviveTimer |-> 0,
   weaponLevel |-> 1, speedLevel |-> 1, maxHpLevel |-> 1,
   rapidFire |-> 0, shield |-> FALSE,
   dashCooldown |-> 0, dashDuration |-> 0, dashDir |-> <<0, 0>>,
   isDashing |-> FALSE, score |-> 0, kills |-> 0]

\* (d / len) for a key direction d: len is sqrt(2) on a diagonal, else 1
Unit(d) ==
  IF d[1] # 0 /\ d[2] # 0 THEN <<707 * d[1], 707 * d[2]>>
  ELSE <<1000 * d[1], 1000 * d[2]>>

\* (cos a, sin a) for a = atan2(mouseY - y, mouseX - x), taken to the
\* nearest axis or diagonal of the pointer's quadrant; atan2(0, 0) is 0
Aim(p) ==
  LET d == <<Sgn(p.input.mouseX - p.x), Sgn(p.input.mouseY - p.y)>> IN
  IF d = <<0, 0>> THEN <<1000, 0>> ELSE Unit(d)

KeyDir(input) ==
  <<Bit(input.right) - Bit(input.left), Bit(input.down) - Bit(input.up)>>

\* the dash block of _updatePlayers
Dash(p, dt) ==
  LET p1 == [p EXCEPT !.dashCooldown = Max(0, @ - dt)] IN
  [(IF p1.input.dash /\ p1.dashCooldown <= 0 /\ p1.dashDuration <= 0
    THEN [p1 EXCEPT !.dashDir = IF KeyDir(p1.input) = <<0, 0>>
                                THEN Aim(p1) ELSE Unit(KeyDir(p1.input)),
                    !.dashDuration = DASH_DURATION,
                    !.dashCooldown = DASH_COOLDOWN]
    ELSE p1) EXCEPT !.input.dash = FALSE]

\* px covered in dt at the player's speed
WalkStep(p, dt) ==
  (PLAYER_SPEED * (100 + (p.speedLevel - 1) * 15)
                * (IF p.rapidFire > 0 THEN 115 ELSE 100) * dt) \div 10000000
DashStep(dt) == (PLAYER_SPEED * DASH_FACTOR * dt) \div 1000

\* the movement block of _updatePlayers, before the clamp
Move(p, dt) ==
  IF p.dashDuration > 0
  THEN [p EXCEPT !.dashDuration = @ - dt,
                 !.isDashing = TRUE,
                 !.x = @ + (p.dashDir[1] * DashStep(dt)) \div 1000,
                 !.y = @ + (p.dashDir[2] * DashStep(dt)) \div 1000]
  ELSE LET u == Unit(KeyDir(p.input)) IN
       [p EXCEPT !.isDashing = FALSE,
                 !.x = @ + (u[1] * WalkStep(p, dt)) \div 1000,
                 !.y = @ + (u[2] * WalkStep(p, dt)) \div 1000]

\* variant: the clamp without its lower bound
Clamp_NoLower(p) ==
  [p EXCEPT !.x = Min(CANVAS_W - PLAYER_RADIUS, @),
            !.y = Min(CANVAS_H - PLAYER_RADIUS, @)]

\* Math.max(PLAYER_RADIUS, Math.min(CANVAS - PLAYER_RADIUS, .))
Clamp(p) ==
  [p EXCEPT !.x = Max(PLAYER_RADIUS, Min(CANVAS_W - PLAYER_RADIUS, @)),
            !.y = Max(PLAYER_RADIUS, Min(CANVAS_H - PLAYER_RADIUS, @))]

\* the bullet _spawnBullet stores, before uid() names it.  The player's
\* angle is the direction of the pointer; cos and sin of angle + off are
\* taken to the first order in off (off is in 1/100 rad).
SimBullet(p, off) ==
  LET a == Aim(p) IN
  [id |-> 0, ownerId |-> p.socketId, off |-> off,
   x |-> p.x, y |-> p.y,
   vx |-> ((a[1] * 100 - off * a[2]) * BULLET_SPEED) \div 100000,
   vy |-> ((a[2] * 100 + off * a[1]) * BULLET_SPEED) \div 100000,
   life |-> BULLET_LIFE]

\* variant: level 2 fires the spread of level 3
SpawnBullets_Wide(p) ==
  IF p.weaponLevel = 1 THEN <<SimBullet(p, 0)>>
  ELSE <<SimBullet(p, -SPREAD_3), SimBullet(p, 0), SimBullet(p, SPREAD_3)>>

\* _spawnBullets(room, player): the bullets it adds, in order
SpawnBullets(p) ==
  IF p.weaponLevel = 1 THEN <<SimBullet(p, 0)>>
  ELSE IF p.weaponLevel = 2
       THEN <<SimBullet(p, -SPREAD_2), SimBullet(p, SPREAD_2)>>
       ELSE <<SimBullet(p, -SPREAD_3), SimBullet(p, 0),
              SimBullet(p, SPREAD_3)>>

\* the shooting block of _updatePlayers: the player and the new bullets
Shoot(p, dt) ==
  LET p1    == [p EXCEPT !.shootCooldown = Max(0, @ - dt)]
      fires == p1.input.shooting /\ p1.shootCooldown <= 0
      p2    == IF fires
               THEN [p1 EXCEPT !.shootCooldown =
                       IF p1.rapidFire > 0 THEN RAPID_FIRE_RATE
                       ELSE FIRE_RATE]
               ELSE p1
  IN [p |-> [p2 EXCEPT !.rapidFire = Max(0, @ - dt)],
      fired |-> IF fires THEN SpawnBullets(p1) ELSE <<>>]

\* _revivePlayer(room, player)
RevivePlayer(p) ==
  [p EXCEPT !.alive = TRUE, !.hp = HP(PLAYER_MAX_HP) \div 2,
            !.reviveTimer = 0]

\* variant: the loop body does not set the dead apart
UpdatePlayer_DeadMoves(p, dt) ==
  LET s == Shoot(Clamp(Move(Dash(p, dt), dt)), dt) IN
  [p |-> s.p, fired |-> s.fired, revived |-> FALSE]

\* the body of the loop of _updatePlayers for one player
UpdatePlayer(p, dt) ==
  IF ~p.alive
  THEN [p |-> IF p.reviveTimer > 0
              THEN IF p.reviveTimer - dt <= 0 THEN RevivePlayer(p)
                   ELSE [p EXCEPT !.reviveTimer = @ - dt]
              ELSE p,
        fired |-> <<>>, revived |-> p.reviveTimer > 0 /\ p.reviveTimer - dt <= 0]
  ELSE LET s == Shoot(Clamp(Move(Dash(p, dt), dt)), dt) IN
       [p |-> s.p, fired |-> s.fired, revived |-> FALSE]

\* _updatePlayers(room, dt), from player i on: players, new bullets and
\* the player_revived broadcasts
RECURSIVE SimUpdatePlayers(_, _, _)
SimUpdatePlayers(room, dt, i) ==
  IF i > Len(room.players) THEN room
  ELSE LET u == UpdatePlayer(room.players[i], dt) IN
       SimUpdatePlayers(
         [room EXCEPT !.players[i] = u.p,
                      !.bullets = @ \o [k \in DOMAIN u.fired |->
                                          [u.fired[k] EXCEPT
                                             !.id = room.nextId + k - 1]],
                      !.nextId = @ + Len(u.fired),
                      !.events = IF u.revived
                                 THEN Append(@, <<"player_revived",
                                                 u.p.socketId>>)
                                 ELSE @],
         dt, i + 1)

\* variant: the input is assigned to every player of the room
SimHandleInput_All(room, s, input) ==
  [room EXCEPT !.players =
     [i \in DOMAIN room.players |-> [room.players[i] EXCEPT !.input = input]]]

\* handleInput(socketId, input): Object.assign on the player's input
SimHandleInput(room, s, input) ==
  [room EXCEPT !.players =
     [i \in DOMAIN room.players |->
        IF room.players[i].socketId = s
        THEN [room.players[i] EXCEPT !.input = input]
        ELSE room.players[i]]]

\* The simulated room: the room object of createRoom once the game has
\* started, with the next value of uid() (nextId), the pending shield
\* timeouts, the events and the snapshot of the last step, and the number
\* of ticks taken (n).
NoSnapshot == [enemies |-> {}, players |-> <<>>, wave |-> 0, score |-> 0,
               coins |-> 0]

SimRoom(kind, ps) ==
  [kind |-> kind, state |-> "playing", players |-> ps,
   enemies |-> <<>>, bullets |-> <<>>, powerups |-> <<>>,
   wave |-> FIRST_WAVE, waveClearTimer |-> 0, spawnTimer |-> 0,
   score |-> 0, coins |-> 0, tick |-> 0, enemiesKilledThisWave |-> 0,
   nextId |-> 1, timeouts |-> <<>>, events |-> <<>>,
   snapshot |-> NoSnapshot, n |-> 0]

lifecycle == <<rooms, heap, timers, intervals, connected, out>>

\* no room, no timer: the lifecycle part of the initial state
NoRooms ==
  /\ rooms     = [c \in Codes |-> None]
  /\ heap      = <<>>
  /\ timers    = <<>>
  /\ intervals = {}
  /\ connected = Sockets
  /\ out       = <<>>

\* ---- bounds of the player simulation
MaxMoveTick  == 2      \* ticks per run of the movement
MaxShootTick == 5      \* ticks per run of the shooting
FarAway      == 100000 \* a pointer position far outside the arena

TickLengths == {33, MAX_DT}
SimMaxTick == IF sim.kind = "move" THEN MaxMoveTick ELSE MaxShootTick

StartXs == {PLAYER_RADIUS, HOST_START_X, CANVAS_W - PLAYER_RADIUS}
StartYs == {PLAYER_RADIUS, CANVAS_H \div 2, CANVAS_H - PLAYER_RADIUS}

KeySets == {<<FALSE, FALSE, FALSE, FALSE>>, <<TRUE, FALSE, FALSE, FALSE>>,
            <<FALSE, FALSE, TRUE, FALSE>>,  <<FALSE, TRUE, FALSE, TRUE>>,
            <<TRUE, FALSE, TRUE, FALSE>>,   <<FALSE, FALSE, TRUE, TRUE>>}

\* the input records the input handler can build
MoveInputs ==
  {[up |-> k[1], down |-> k[2], left |-> k[3], right |-> k[4],
    shooting |-> FALSE, dash |-> d, mouseX |-> m, mouseY |-> m] :
     k \in KeySets, d \in BOOLEAN, m \in {-FarAway, FarAway}}
ShootInputs ==
  {[SimInput0(HOST_START_X) EXCEPT !.shooting = b] : b \in BOOLEAN}
SimInputs == IF sim.kind = "move" THEN MoveInputs ELSE ShootInputs

InitMove ==
  /\ NoRooms
  /\ sim \in {SimRoom("move", <<[SimPlayer(1, TRUE) EXCEPT
                                  !.x = x, !.y = y, !.speedLevel = sl]>>) :
                x \in StartXs, y \in StartYs, sl \in {1, 3}}

InitShoot ==
  /\ NoRooms
  /\ sim \in {SimRoom("shoot", <<[SimPlayer(1, TRUE) EXCEPT
                                   !.weaponLevel = wl, !.rapidFire = rf,
                                   !.alive = a,
                                   !.reviveTimer = IF a THEN 0
                                                   ELSE REVIVE_TIME]>>) :
                wl \in 1..3, rf \in {0, MAX_DT, 8000}, a \in BOOLEAN}

\* socket.on('input') of the player's socket
OnInput(input) ==
  /\ sim.kind \in {"move", "shoot"}
  /\ input \in SimInputs
  /\ sim' = [SimHandleInput(sim, 1, input) EXCEPT !.events = <<>>]
  /\ UNCHANGED lifecycle

\* _updatePlayers in a tick of length dt
UpdatePlayersStep(dt) ==
  /\ sim.kind \in {"move", "shoot"}
  /\ sim.n < SimMaxTick
  /\ sim' = [SimUpdatePlayers([sim EXCEPT !.events = <<>>], dt, 1)
               EXCEPT !.n = @ + 1]
  /\ UNCHANGED lifecycle

NextPlayers ==
  \/ \E input \in MoveInputs \cup ShootInputs : OnInput(input)
  \/ \E dt \in TickLengths : UpdatePlayersStep(dt)

SpecMove  == InitMove /\ [][NextPlayers]_vars
SpecShoot == InitShoot /\ [][NextPlayers]_vars


\* ===================================================== simulation: combat
BULLET_RADIUS   == 5
BULLET_DAMAGE   == 20
BULLET_MARGIN   == 50      \* a bullet lives up to 50 px outside the arena
WAVE_BREAK_TIME == 5000
MAX_ENEMIES     == 60
POWERUP_RADIUS  == 11
POWERUP_LIFE    == 12000
POWERUP_MARGIN  == 20
RAPID_FIRE_TIME == 8000
SPEED_BUFF_TIME == 5000
HEALTH_GAIN     == 30
MAXHP_GAIN      == 20
MAX_LEVEL       == 3
SPAWN_MARGIN    == 30      \* enemies appear 30 px outside the arena
WAVE_WARMUP     == 60      \* no wave clears in the first 60 ticks
WAVE_KILLS_BASE == 8
WAVE_KILLS_STEP == 3
ENEMY_HP_STEP   == 5

ENEMY_STATS ==
  [basic    |-> [hp |-> 30,  speed |-> 90,  damage |-> 10, score |-> 10,
                 radius |-> 18],
   fast     |-> [hp |-> 15,  speed |-> 170, damage |-> 8,  score |-> 15,
                 radius |-> 12],
   tank     |-> [hp |-> 90,  speed |-> 55,  damage |-> 20, score |-> 25,
                 radius |-> 26],
   shooter  |-> [hp |-> 35,  speed |-> 75,  damage |-> 10, score |-> 20,
                 radius |-> 16],
   miniboss |-> [hp |-> 200, speed |-> 60,  damage |-> 25, score |-> 75,
                 radius |-> 30]]

\* the enemy object _spawnEnemy stores
SimEnemy(id, type, x, y, wave) ==
  LET stats == ENEMY_STATS[type] IN
  [id |-> id, type |-> type, x |-> x, y |-> y,
   hp |-> stats.hp + wave * ENEMY_HP_STEP,
   maxHp |-> stats.hp + wave * ENEMY_HP_STEP,
   speed |-> stats.speed, damage |-> stats.damage, score |-> stats.score,
   radius |-> stats.radius, alive |-> TRUE]

Abs(a) == IF a < 0 THEN -a ELSE a
Dist2(a, b) == (a.x - b.x) * (a.x - b.x) + (a.y - b.y) * (a.y - b.y)

\* Math.sqrt(dx * dx + dy * dy), rounded down
Length(dx, dy) ==
  CHOOSE n \in Max(Abs(dx), Abs(dy))..(Abs(dx) + Abs(dy)) :
    n * n <= dx * dx + dy * dy /\ (n + 1) * (n + 1) > dx * dx + dy * dy

\* _updateBullets(room, dt)
UpdateBullets(room, dt) ==
  LET moved == [i \in DOMAIN room.bullets |->
                  [room.bullets[i] EXCEPT
                     !.x = @ + (room.bullets[i].vx * dt) \div 1000,
                     !.y = @ + (room.bullets[i].vy * dt) \div 1000,
                     !.life = @ - dt]]
      Stays(b) == ~(\/ b.life <= 0
                    \/ b.x < -BULLET_MARGIN \/ b.x > CANVAS_W + BULLET_MARGIN
                    \/ b.y < -BULLET_MARGIN \/ b.y > CANVAS_H + BULLET_MARGIN)
  IN [room EXCEPT !.bullets = SelectSeq(moved, Stays)]

\* the living player nearest to e, the first of them at equal distance;
\* 0 if no player is alive
Nearest(room, e) ==
  LET alive == {i \in DOMAIN room.players : room.players[i].alive} IN
  IF alive = {} THEN 0
  ELSE CHOOSE i \in alive :
         \A j \in alive :
           \/ Dist2(room.players[i], e) < Dist2(room.players[j], e)
           \/ Dist2(room.players[i], e) = Dist2(room.players[j], e) /\ i <= j

\* _updateEnemies(room, dt): dead enemies leave, the others approach
UpdateEnemies(room, dt) ==
  LET live == SelectSeq(room.enemies, LAMBDA e : e.alive)
      Step(e) ==
        LET k == Nearest(room, e) IN
        IF k = 0 THEN e
        ELSE LET dx  == room.players[k].x - e.x
                 dy  == room.players[k].y - e.y
                 len == IF Length(dx, dy) = 0 THEN 1 ELSE Length(dx, dy)
             IN [e EXCEPT !.x = @ + (dx * e.speed * dt) \div (len * 1000),
                          !.y = @ + (dy * e.speed * dt) \div (len * 1000)]
  IN [room EXCEPT !.enemies = [i \in DOMAIN live |-> Step(live[i])]]

Broadcast(room, ev) == [room EXCEPT !.events = Append(@, ev)]

\* _endGame(room, reason) as the simulated room sees it
SimEndGame(room, reason) ==
  IF room.state = "gameover" THEN room
  ELSE Broadcast([room EXCEPT !.state = "gameover"],
                 <<"game_over", reason>>)

\* _killPlayer(room, player)
SimKillPlayer(room, i) ==
  LET r1 == Broadcast([room EXCEPT !.players[i].alive = FALSE,
                                   !.players[i].hp = 0,
                                   !.players[i].reviveTimer = REVIVE_TIME],
                      <<"player_died", room.players[i].socketId>>)
  IN IF \A j \in DOMAIN r1.players : ~r1.players[j].alive
     THEN SimEndGame(r1, "all_dead") ELSE r1

\* the powerup types _spawnPowerup can draw
PowerupTypes(room) ==
  {"health", "rapidfire", "speed", "shield"}
  \cup (IF \E i \in DOMAIN room.players :
             room.players[i].weaponLevel < MAX_LEVEL
        THEN {"weapon"} ELSE {})
  \cup (IF \E i \in DOMAIN room.players :
             room.players[i].speedLevel < MAX_LEVEL
        THEN {"speedup"} ELSE {})
  \cup (IF \E i \in DOMAIN room.players :
             room.players[i].maxHpLevel < MAX_LEVEL
        THEN {"maxhp"} ELSE {})
  \cup (IF room.wave >= 2 THEN {"nuke"} ELSE {})

\* _spawnPowerup(room, x, y) when it draws the given type
SpawnPowerup(room, x, y, type) ==
  [room EXCEPT
     !.powerups = Append(@,
        [id |-> room.nextId, type |-> type,
         x |-> Max(POWERUP_MARGIN, Min(CANVAS_W - POWERUP_MARGIN, x)),
         y |-> Max(POWERUP_MARGIN, Min(CANVAS_H - POWERUP_MARGIN, y)),
         life |-> POWERUP_LIFE]),
     !.nextId = @ + 1]

PlayerAt(room, s) ==
  IF \E i \in DOMAIN room.players : room.players[i].socketId = s
  THEN CHOOSE i \in DOMAIN room.players : room.players[i].socketId = s
  ELSE 0

\* the first living enemy, from index j on, that bullet b touches; 0 if none
FirstHit(room, b, j) ==
  LET hit == {k \in j..Len(room.enemies) :
                /\ room.enemies[k].alive
                /\ Dist2(b, room.enemies[k]) <
                     (BULLET_RADIUS + room.enemies[k].radius)
                     * (BULLET_RADIUS + room.enemies[k].radius)}
  IN IF hit = {} THEN 0
     ELSE CHOOSE k \in hit : \A m \in hit : k <= m

\* variant: a kill credits the room but not the shooter
CreditKill_RoomOnly(room, j, owner) ==
  LET e == room.enemies[j] IN
  [room EXCEPT !.enemies[j].alive = FALSE,
               !.score = @ + e.score,
               !.coins = @ + e.score \div 2,
               !.enemiesKilledThisWave = @ + 1]

\* _checkCollisions, the branch e.hp <= 0, before the powerup drop
CreditKill(room, j, owner) ==
  LET e  == room.enemies[j]
      k  == PlayerAt(room, owner)
      r1 == [room EXCEPT !.enemies[j].alive = FALSE,
                         !.score = @ + e.score,
                         !.coins = @ + e.score \div 2,
                         !.enemiesKilledThisWave = @ + 1]
  IN IF k = 0 THEN r1
     ELSE [r1 EXCEPT !.players[k].score = @ + e.score,
                     !.players[k].kills = @ + 1]

\* _checkCollisions, bullets vs enemies, for the bullets bs in order.
\* luck maps the id of an enemy to the powerup its death drops, or "none".
RECURSIVE BulletsVsEnemies(_, _, _)
BulletsVsEnemies(room, bs, luck) ==
  IF bs = <<>> THEN room
  ELSE
    LET b == Head(bs)
        j == FirstHit(room, b, 1)
    IN IF j = 0 THEN BulletsVsEnemies(room, Tail(bs), luck)
       ELSE
         LET r1 == [room EXCEPT
                      !.enemies[j].hp = @ - BULLET_DAMAGE,
                      !.bullets = SelectSeq(@, LAMBDA c : c.id # b.id)]
             e  == r1.enemies[j]
             r2 == IF e.hp <= 0 THEN CreditKill(r1, j, b.ownerId) ELSE r1
             r3 == IF e.hp <= 0 /\ luck[e.id] # "none"
                   THEN SpawnPowerup(r2, e.x, e.y, luck[e.id]) ELSE r2
         IN BulletsVsEnemies(r3, Tail(bs), luck)

\* contact damage of enemy e on player p, in 1/10000 of a point:
\* e.damage * 0.016 * (p.shield ? 0.4 : 1)
ContactDamage(e, p) == e.damage * (IF p.shield THEN 64 ELSE 160)

\* _checkCollisions, enemies vs players, from enemy j and player i on:
\* the loops go on to the next pair of a living enemy and a living player
\* in contact, damage the player, kill it at hp <= 0, and continue
RECURSIVE EnemiesVsPlayers(_, _, _)
EnemiesVsPlayers(room, j, i) ==
  LET pairs == {c \in (j..Len(room.enemies)) \X DOMAIN room.players :
                  /\ c[1] > j \/ c[2] >= i
                  /\ room.enemies[c[1]].alive
                  /\ room.players[c[2]].alive
                  /\ Dist2(room.players[c[2]], room.enemies[c[1]]) <
                       (PLAYER_RADIUS + room.enemies[c[1]].radius)
                       * (PLAYER_RADIUS + room.enemies[c[1]].radius)}
  IN IF pairs = {} THEN room
     ELSE
       LET c  == CHOOSE c \in pairs :
                   \A d \in pairs :
                     c[1] < d[1] \/ (c[1] = d[1] /\ c[2] <= d[2])
           e  == room.enemies[c[1]]
           p  == room.players[c[2]]
           r1 == [room EXCEPT !.players[c[2]].hp = @ - ContactDamage(e, p)]
       IN EnemiesVsPlayers(
            IF r1.players[c[2]].hp <= 0 THEN SimKillPlayer(r1, c[2]) ELSE r1,
            c[1], c[2] + 1)

\* _checkCollisions(room)
SimCheckCollisions(room, luck) ==
  EnemiesVsPlayers(BulletsVsEnemies(room, room.bullets, luck), 1, 1)

\* variant: the upgrades are applied whatever the level
ApplyPowerup_NoCap(room, i, pu) ==
  LET p  == room.players[i]
      r1 ==
        CASE pu.type = "health" ->
               [room EXCEPT !.players[i].hp =
                  Min(p.maxHp, p.hp + HP(HEALTH_GAIN))]
          [] pu.type = "maxhp" ->
               IF TRUE
               THEN LET maxHp == HP(PLAYER_MAX_HP + p.maxHpLevel * MAXHP_GAIN)
                    IN [room EXCEPT
                          !.players[i].maxHpLevel = @ + 1,
                          !.players[i].maxHp = maxHp,
                          !.players[i].hp = Min(p.hp + HP(MAXHP_GAIN), maxHp)]
               ELSE room
          [] pu.type = "rapidfire" ->
               [room EXCEPT !.players[i].rapidFire = RAPID_FIRE_TIME]
          [] pu.type = "speed" ->
               [room EXCEPT !.players[i].rapidFire = Max(@, SPEED_BUFF_TIME)]
          [] pu.type = "speedup" ->
               IF TRUE
               THEN [room EXCEPT !.players[i].speedLevel = @ + 1] ELSE room
          [] pu.type = "weapon" ->
               IF TRUE
               THEN [room EXCEPT !.players[i].weaponLevel = @ + 1] ELSE room
          [] pu.type = "shield" ->
               [room EXCEPT !.players[i].shield = TRUE,
                            !.timeouts = Append(@, p.socketId)]
          [] pu.type = "nuke" ->
               LET gain == [j \in DOMAIN room.enemies |->
                              IF room.enemies[j].alive
                              THEN room.enemies[j].score ELSE 0]
                   Sum[j \in 0..Len(gain)] ==
                     IF j = 0 THEN 0 ELSE Sum[j - 1] + gain[j]
                   dead == Cardinality({j \in DOMAIN room.enemies :
                                          room.enemies[j].alive})
               IN Broadcast(
                    [room EXCEPT
                       !.enemies = [j \in DOMAIN room.enemies |->
                                      [room.enemies[j] EXCEPT !.alive = FALSE]],
                       !.score = @ + Sum[Len(gain)],
                       !.players[i].score = @ + Sum[Len(gain)],
                       !.players[i].kills = @ + dead],
                    <<"nuke", p.socketId>>)
  IN Broadcast(r1, <<"powerup_collected", p.socketId, pu.type>>)

\* _applyPowerup(room, player, pu) for the player at index i
ApplyPowerup(room, i, pu) ==
  LET p  == room.players[i]
      r1 ==
        CASE pu.type = "health" ->
               [room EXCEPT !.players[i].hp =
                  Min(p.maxHp, p.hp + HP(HEALTH_GAIN))]
          [] pu.type = "maxhp" ->
               IF p.maxHpLevel < MAX_LEVEL
               THEN LET maxHp == HP(PLAYER_MAX_HP + p.maxHpLevel * MAXHP_GAIN)
                    IN [room EXCEPT
                          !.players[i].maxHpLevel = @ + 1,
                          !.players[i].maxHp = maxHp,
                          !.players[i].hp = Min(p.hp + HP(MAXHP_GAIN), maxHp)]
               ELSE room
          [] pu.type = "rapidfire" ->
               [room EXCEPT !.players[i].rapidFire = RAPID_FIRE_TIME]
          [] pu.type = "speed" ->
               [room EXCEPT !.players[i].rapidFire = Max(@, SPEED_BUFF_TIME)]
          [] pu.type = "speedup" ->
               IF p.speedLevel < MAX_LEVEL
               THEN [room EXCEPT !.players[i].speedLevel = @ + 1] ELSE room
          [] pu.type = "weapon" ->
               IF p.weaponLevel < MAX_LEVEL
               THEN [room EXCEPT !.players[i].weaponLevel = @ + 1] ELSE room
          [] pu.type = "shield" ->
               [room EXCEPT !.players[i].shield = TRUE,
                            !.timeouts = Append(@, p.socketId)]
          [] pu.type = "nuke" ->
               LET gain == [j \in DOMAIN room.enemies |->
                              IF room.enemies[j].alive
                              THEN room.enemies[j].score ELSE 0]
                   Sum[j \in 0..Len(gain)] ==
                     IF j = 0 THEN 0 ELSE Sum[j - 1] + gain[j]
                   dead == Cardinality({j \in DOMAIN room.enemies :
                                          room.enemies[j].alive})
               IN Broadcast(
                    [room EXCEPT
                       !.enemies = [j \in DOMAIN room.enemies |->
                                      [room.enemies[j] EXCEPT !.alive = FALSE]],
                       !.score = @ + Sum[Len(gain)],
                       !.players[i].score = @ + Sum[Len(gain)],
                       !.players[i].kills = @ + dead],
                    <<"nuke", p.socketId>>)
  IN Broadcast(r1, <<"powerup_collected", p.socketId, pu.type>>)

\* the first of the players alive (those in ps) that touches powerup pu
FirstTouch(room, ps, pu) ==
  LET touching == {i \in ps :
                     Dist2(room.players[i], pu) <
                       (PLAYER_RADIUS + POWERUP_RADIUS)
                       * (PLAYER_RADIUS + POWERUP_RADIUS)}
  IN IF touching = {} THEN 0
     ELSE CHOOSE i \in touching : \A j \in touching : i <= j

\* _updatePowerups(room, dt), for the powerups pus in order; ps are the
\* players that were alive when the function began
RECURSIVE UpdatePowerupsFrom(_, _, _, _)
UpdatePowerupsFrom(room, pus, ps, dt) ==
  IF pus = <<>> THEN room
  ELSE
    LET pu   == [Head(pus) EXCEPT !.life = @ - dt]
        Drop(r) == [r EXCEPT !.powerups =
                      SelectSeq(@, LAMBDA q : q.id # pu.id)]
        Aged(r) == [r EXCEPT !.powerups =
                      [k \in DOMAIN r.powerups |->
                         IF r.powerups[k].id = pu.id THEN pu
                         ELSE r.powerups[k]]]
        i    == FirstTouch(room, ps, pu)
    IN IF pu.life <= 0
       THEN UpdatePowerupsFrom(Drop(room), Tail(pus), ps, dt)
       ELSE IF i = 0
            THEN UpdatePowerupsFrom(Aged(room), Tail(pus), ps, dt)
            ELSE UpdatePowerupsFrom(Drop(ApplyPowerup(room, i, pu)),
                                    Tail(pus), ps, dt)

UpdatePowerups(room, dt) ==
  UpdatePowerupsFrom(room, room.powerups,
                     {i \in DOMAIN room.players : room.players[i].alive}, dt)

AliveEnemies(room) ==
  Cardinality({j \in DOMAIN room.enemies : room.enemies[j].alive})

TotalKills(room) ==
  LET Sum[i \in 0..Len(room.players)] ==
        IF i = 0 THEN 0 ELSE Sum[i - 1] + room.players[i].kills
  IN Sum[Len(room.players)]

\* the types _spawnEnemy can draw in a wave
SpawnTypes(wave) ==
  {"basic", "fast"}
  \cup (IF wave >= 2 THEN {"tank"} ELSE {})
  \cup (IF wave >= 3 THEN {"shooter", "miniboss"} ELSE {})

\* _spawnEnemy(room) when it draws type and place of sp
SpawnEnemy(room, sp) ==
  [room EXCEPT
     !.enemies = Append(@, SimEnemy(room.nextId, sp.type, sp.x, sp.y,
                                    room.wave)),
     !.nextId = @ + 1]

\* Math.max(0.4, 2.0 - room.wave * 0.08)
SpawnInterval(wave) == Max(400, 2000 - wave * 80)

\* _updateWave: the end of the break between two waves
AdvanceWave(room) ==
  Broadcast([room EXCEPT !.wave = @ + 1, !.waveClearTimer = 0,
                         !.enemiesKilledThisWave = 0],
            <<"wave_start", room.wave + 1>>)

\* variant: the break branch does not return, the spawn block follows it
UpdateWave_NoReturn(room, dt, sp) ==
  LET aliveEnemies == AliveEnemies(room)
      r0 == IF room.waveClearTimer > 0
            THEN IF room.waveClearTimer - dt <= 0 THEN AdvanceWave(room)
                 ELSE [room EXCEPT !.waveClearTimer = @ - dt]
            ELSE room
  IN IF aliveEnemies < MAX_ENEMIES
     THEN IF r0.spawnTimer - dt <= 0
          THEN [SpawnEnemy(r0, sp) EXCEPT
                  !.spawnTimer = SpawnInterval(r0.wave)]
          ELSE [r0 EXCEPT !.spawnTimer = @ - dt]
     ELSE r0

\* variant: the spawn block also runs with exactly MAX_ENEMIES alive
UpdateWave_CapInclusive(room, dt, sp) ==
  LET aliveEnemies == AliveEnemies(room) IN
  IF room.waveClearTimer > 0
  THEN IF room.waveClearTimer - dt <= 0 THEN AdvanceWave(room)
       ELSE [room EXCEPT !.waveClearTimer = @ - dt]
  ELSE IF aliveEnemies <= MAX_ENEMIES
       THEN IF room.spawnTimer - dt <= 0
            THEN [SpawnEnemy(room, sp) EXCEPT
                    !.spawnTimer = SpawnInterval(room.wave)]
            ELSE [room EXCEPT !.spawnTimer = @ - dt]
       ELSE room

\* _updateWave(room, dt); sp is the enemy _spawnEnemy draws if it is called
UpdateWave(room, dt, sp) ==
  LET aliveEnemies == AliveEnemies(room) IN
  IF room.waveClearTimer > 0
  THEN IF room.waveClearTimer - dt <= 0 THEN AdvanceWave(room)
       ELSE [room EXCEPT !.waveClearTimer = @ - dt]
  ELSE
    LET r1 == IF aliveEnemies < MAX_ENEMIES
              THEN IF room.spawnTimer - dt <= 0
                   THEN [SpawnEnemy(room, sp) EXCEPT
                           !.spawnTimer = SpawnInterval(room.wave)]
                   ELSE [room EXCEPT !.spawnTimer = @ - dt]
              ELSE room
    IN IF /\ aliveEnemies = 0 /\ r1.spawnTimer <= 0 /\ r1.tick > WAVE_WARMUP
          /\ TotalKills(r1) >= WAVE_KILLS_BASE + r1.wave * WAVE_KILLS_STEP
       THEN Broadcast([r1 EXCEPT !.waveClearTimer = WAVE_BREAK_TIME],
                      <<"wave_clear", r1.wave, r1.wave + 1>>)
       ELSE r1

\* _broadcastState(room): what the snapshot says about enemies and players
SimBroadcastState(room) ==
  [room EXCEPT !.snapshot =
     [enemies |-> {room.enemies[j].id :
                     j \in {k \in DOMAIN room.enemies :
                              room.enemies[k].alive}},
      players |-> [i \in DOMAIN room.players |->
                     [hp |-> room.players[i].hp,
                      alive |-> room.players[i].alive]],
      wave |-> room.wave, score |-> room.score, coins |-> room.coins]]

\* variant: the collisions are resolved before anything has moved
SimTick_CollideFirst(room, dt, luck, sp) ==
  IF room.state # "playing" THEN room
  ELSE LET r0 == [room EXCEPT !.tick = @ + 1, !.events = <<>>]
           r1 == SimCheckCollisions(r0, luck)
           r2 == SimUpdatePlayers(r1, dt, 1)
           r3 == UpdateBullets(r2, dt)
           r4 == UpdateEnemies(r3, dt)
           r5 == UpdatePowerups(r4, dt)
           r6 == UpdateWave(r5, dt, sp)
       IN SimBroadcastState(r6)

\* _tick(room) with elapsed time dt
SimTick(room, dt, luck, sp) ==
  IF room.state # "playing" THEN room
  ELSE LET r0 == [room EXCEPT !.tick = @ + 1, !.events = <<>>]
           r1 == SimUpdatePlayers(r0, dt, 1)
           r2 == UpdateBullets(r1, dt)
           r3 == UpdateEnemies(r2, dt)
           r4 == SimCheckCollisions(r3, luck)
           r5 == UpdatePowerups(r4, dt)
           r6 == UpdateWave(r5, dt, sp)
       IN SimBroadcastState(r6)

\* ---- bounds of the combat simulation
MaxCombatTick == 2       \* ticks per run
LowHp         == 1600    \* health left for one more contact, in 1/10000
NearX         == 470     \* an enemy within a tick's bullet flight of the host
KillsDone     == 11      \* kills with which wave 1 counts as cleared

DropChoices  == {"none", "health"}
SpawnBound   == {"basic", "fast"}
SpawnChoices(room) ==
  {[type |-> ty, x |-> -SPAWN_MARGIN, y |-> CANVAS_H \div 2] :
     ty \in SpawnTypes(room.wave) \cap SpawnBound}

MidY == CANVAS_H \div 2
Host  == SimPlayer(1, TRUE)
Guest == SimPlayer(2, FALSE)

\* rooms in which bullets of the host meet enemies: one enemy a hit away
\* from death, one two hits away, two on the same spot
HitRooms ==
  {[SimRoom("tick", <<[Host EXCEPT !.weaponLevel = wl], Guest>>) EXCEPT
      !.enemies = es, !.nextId = Len(es) + 1, !.spawnTimer = 2000] :
     wl \in {1, 2},
     es \in {<<SimEnemy(1, "fast", NearX, MidY, FIRST_WAVE)>>,
             <<SimEnemy(1, "basic", NearX, MidY, FIRST_WAVE)>>,
             <<SimEnemy(1, "fast", NearX, MidY, FIRST_WAVE),
               SimEnemy(2, "fast", NearX, MidY, FIRST_WAVE)>>}}

\* a player that has fallen at max-HP level lv, its revive time tm left
Fallen(p, lv, tm) ==
  [p EXCEPT !.alive = FALSE, !.hp = 0, !.reviveTimer = tm,
            !.maxHpLevel = lv,
            !.maxHp = HP(PLAYER_MAX_HP + (lv - 1) * MAXHP_GAIN)]

\* rooms in which the host is in contact with an enemy, on a powerup, with
\* little or full health, and the guest is alive or about to revive
ReviveRooms ==
  {[SimRoom("tick", <<[Host EXCEPT !.hp = hp], g>>) EXCEPT
      !.enemies = <<SimEnemy(1, "basic", HOST_START_X, MidY, FIRST_WAVE)>>,
      !.powerups = <<[id |-> 2, type |-> pt, x |-> HOST_START_X, y |-> MidY,
                      life |-> POWERUP_LIFE]>>,
      !.nextId = 3, !.spawnTimer = 2000] :
     hp \in {LowHp, HP(PLAYER_MAX_HP)},
     pt \in {"maxhp", "shield"},
     g \in {Guest} \cup {Fallen(Guest, lv, tm) :
                           lv \in 1..2, tm \in {MAX_DT, REVIVE_TIME}}}

\* rooms past the warm-up with no enemy alive, the players short of or at
\* the kill target of the wave, the next spawn due or not
WaveRooms ==
  {[SimRoom("tick", <<[Host EXCEPT !.kills = k, !.score = k * 10], Guest>>)
      EXCEPT !.tick = WAVE_WARMUP + 1, !.spawnTimer = st,
             !.score = k * 10, !.coins = k * 5,
             !.enemiesKilledThisWave = k, !.nextId = k + 1] :
     k \in {KillsDone - 1, KillsDone}, st \in {MAX_DT, 400}}

TickInputs ==
  {SimInput0(HOST_START_X),
   [SimInput0(HOST_START_X) EXCEPT !.shooting = TRUE, !.mouseX = FarAway]}

InitTick ==
  /\ NoRooms
  /\ sim \in HitRooms \cup ReviveRooms \cup WaveRooms

\* socket.on('input') of the socket of player s
OnPlayerInput(s, input) ==
  /\ sim.kind = "tick"
  /\ sim' = [SimHandleInput(sim, s, input) EXCEPT !.events = <<>>]
  /\ UNCHANGED lifecycle

\* the TICK_MS interval of the room
TickStep(dt) ==
  /\ sim.kind = "tick"
  /\ sim.state = "playing"
  /\ sim.n < MaxCombatTick
  /\ \E luck \in [{sim.enemies[j].id : j \in DOMAIN sim.enemies}
                    -> DropChoices] :
       \E sp \in SpawnChoices(sim) :
         sim' = [SimTick(sim, dt, luck, sp) EXCEPT !.n = @ + 1]
  /\ UNCHANGED lifecycle

\* the 8000 ms timeout set by a shield powerup
ShieldTimeout ==
  /\ sim.kind = "tick"
  /\ sim.timeouts # <<>>
  /\ LET i == PlayerAt(sim, Head(sim.timeouts)) IN
     sim' = [sim EXCEPT !.timeouts = Tail(@),
                        !.players[i].shield = FALSE,
                        !.events = <<>>]
  /\ UNCHANGED lifecycle

NextTick ==
  \/ \E s \in 1..2 : \E input \in TickInputs : OnPlayerInput(s, input)
  \/ \E dt \in TickLengths : TickStep(dt)
  \/ ShieldTimeout

SpecTick == InitTick /\ [][NextTick]_vars


\* ---- the break between two waves
\* _updateWave on rooms in which the break is running: the break has 33 ms,
\* 100 ms or all of its 5 s left, the spawn countdown is due, due within a
\* tick or not due, and the host stands on a shield powerup.
BreakRooms ==
  {[SimRoom("tick", <<[Host EXCEPT !.kills = KillsDone,
                                   !.score = KillsDone * 10], Guest>>)
      EXCEPT !.tick = WAVE_WARMUP + 1,
             !.waveClearTimer = wt, !.spawnTimer = st,
             !.score = KillsDone * 10, !.coins = KillsDone * 5,
             !.enemiesKilledThisWave = KillsDone,
             !.powerups = <<[id |-> KillsDone + 1, type |-> "shield",
                             x |-> HOST_START_X, y |-> MidY,
                             life |-> POWERUP_LIFE]>>,
             !.nextId = KillsDone + 2] :
     wt \in {33, MAX_DT, WAVE_BREAK_TIME}, st \in {0, MAX_DT, 400}}

InitBreak ==
  /\ NoRooms
  /\ sim \in BreakRooms

SpecBreak == InitBreak /\ [][NextTick]_vars

\* ---- the cap on live enemies
\* rooms one short of and at MAX_ENEMIES live enemies: one fast enemy a hit
\* away from death within a tick's bullet flight of the host, the others
\* where _spawnEnemy put them on the left edge; the next spawn is due
\* within a long tick or not due; the host stands on a shield powerup
CapRooms ==
  {[SimRoom("tick", <<Host, Guest>>) EXCEPT
      !.enemies = <<SimEnemy(1, "fast", NearX, MidY, FIRST_WAVE)>>
                  \o [k \in 1..(m - 1) |->
                        SimEnemy(k + 1, "basic", -SPAWN_MARGIN, MidY,
                                 FIRST_WAVE)],
      !.powerups = <<[id |-> m + 1, type |-> "shield",
                      x |-> HOST_START_X, y |-> MidY,
                      life |-> POWERUP_LIFE]>>,
      !.nextId = m + 2, !.spawnTimer = st] :
     m \in {MAX_ENEMIES - 1, MAX_ENEMIES}, st \in {MAX_DT, 2000}}

InitCap ==
  /\ NoRooms
  /\ sim \in CapRooms

\* the ids of the enemies a bullet touches when _checkCollisions of a tick
\* of length dt begins: Math.random() decides a drop for no other enemy
InBulletReach(room, dt) ==
  LET pre == UpdateEnemies(
               UpdateBullets(
                 SimUpdatePlayers([room EXCEPT !.tick = @ + 1,
                                               !.events = <<>>], dt, 1),
                 dt),
               dt)
  IN {pre.enemies[j].id :
        j \in {k \in DOMAIN pre.enemies :
                 /\ pre.enemies[k].alive
                 /\ \E m \in DOMAIN pre.bullets :
                      Dist2(pre.bullets[m], pre.enemies[k]) <
                        (BULLET_RADIUS + pre.enemies[k].radius)
                        * (BULLET_RADIUS + pre.enemies[k].radius)}}

\* the TICK_MS interval of a crowded room
CrowdTick(dt) ==
  /\ sim.kind = "tick"
  /\ sim.state = "playing"
  /\ sim.n < MaxCombatTick
  /\ \E drop \in [InBulletReach(sim, dt) -> DropChoices] :
       \E sp \in SpawnChoices(sim) :
         LET luck == [id \in {sim.enemies[j].id : j \in DOMAIN sim.enemies}
                        |-> IF id \in DOMAIN drop THEN drop[id]
                            ELSE "none"]
         IN sim' = [SimTick(sim, dt, luck, sp) EXCEPT !.n = @ + 1]
  /\ UNCHANGED lifecycle

NextCap ==
  \/ \E s \in 1..2 : \E input \in TickInputs : OnPlayerInput(s, input)
  \/ \E dt \in TickLengths : CrowdTick(dt)
  \/ ShieldTimeout

SpecCap == InitCap /\ [][NextCap]_vars

\* ---- powerups on the way of a player
PathFirst  == 40       \* px from the host to the first powerup
PathSecond == 75       \* px from the host to the second powerup

SimPowerup(id, type, x, y) ==
  [id |-> id, type |-> type, x |-> x, y |-> y, life |-> POWERUP_LIFE]

\* a player at level lv of weapon, speed and max HP, with full health
Levelled(p, lv) ==
  [p EXCEPT !.weaponLevel = lv, !.speedLevel = lv, !.maxHpLevel = lv,
            !.maxHp = HP(PLAYER_MAX_HP + (lv - 1) * MAXHP_GAIN),
            !.hp = HP(PLAYER_MAX_HP + (lv - 1) * MAXHP_GAIN)]

PickupPairs ==
  {<<"shield", "shield">>, <<"weapon", "speedup">>, <<"maxhp", "maxhp">>,
   <<"health", "rapidfire">>, <<"speed", "weapon">>}

\* rooms in which two powerups lie to the right of the host, a long tick's
\* walk apart
PickupRooms ==
  {[SimRoom("tick", <<Levelled(Host, lv), Guest>>) EXCEPT
      !.powerups = <<SimPowerup(1, ts[1], HOST_START_X + PathFirst, MidY),
                     SimPowerup(2, ts[2], HOST_START_X + PathSecond, MidY)>>,
      !.nextId = 3, !.spawnTimer = 2000] :
     lv \in {MAX_LEVEL - 1, MAX_LEVEL}, ts \in PickupPairs}

\* idle, a walk to the right, fire to the right
PickupInputs ==
  {SimInput0(HOST_START_X), [SimInput0(HOST_START_X) EXCEPT !.right = TRUE],
   [SimInput0(FarAway) EXCEPT !.shooting = TRUE]}

\* rooms of wave 2 in which a nuke powerup lies to the right of the host,
\* with one enemy near the host and one where _spawnEnemy put it
NukeRooms ==
  {[SimRoom("tick", <<[Host EXCEPT !.kills = KillsDone,
                                   !.score = KillsDone * 10], Guest>>) EXCEPT
      !.wave = FIRST_WAVE + 1, !.tick = WAVE_WARMUP + 1,
      !.score = KillsDone * 10, !.coins = KillsDone * 5,
      !.enemies = <<SimEnemy(KillsDone + 1, ty, NearX, MidY, FIRST_WAVE + 1),
                    SimEnemy(KillsDone + 2, "basic", -SPAWN_MARGIN, MidY,
                             FIRST_WAVE + 1)>>,
      !.powerups = <<SimPowerup(KillsDone + 3, "nuke",
                                HOST_START_X + PathFirst, MidY)>>,
      !.nextId = KillsDone + 4, !.spawnTimer = 2000] :
     ty \in {"fast", "tank"}}

InitPickup ==
  /\ NoRooms
  /\ sim \in PickupRooms \cup NukeRooms

NextPickup ==
  \/ \E input \in PickupInputs : OnPlayerInput(1, input)
  \/ \E dt \in TickLengths : TickStep(dt)
  \/ ShieldTimeout

SpecPickup == InitPickup /\ [][NextPickup]_vars

\* ---- dashes
DashReach == 150       \* px from the host to the enemy: one long tick's dash

\* rooms in which an enemy waits where a dash to the right takes the host,
\* the host has little or full health, and the guest is alive or has
\* fallen on a health powerup, its revival a tick or 10 s away
DashRooms ==
  {[SimRoom("tick", <<[Host EXCEPT !.hp = hp], g>>) EXCEPT
      !.enemies = <<SimEnemy(1, "basic", HOST_START_X + DashReach, MidY,
                             FIRST_WAVE)>>,
      !.powerups = <<SimPowerup(2, "health", GUEST_START_X, MidY)>>,
      !.nextId = 3, !.spawnTimer = 2000] :
     hp \in {LowHp, HP(PLAYER_MAX_HP)},
     g \in {Guest} \cup {Fallen(Guest, 1, tm) : tm \in {MAX_DT, REVIVE_TIME}}}

\* idle, a dash to the right, fire to the right
DashInputs ==
  {SimInput0(FarAway),
   [SimInput0(FarAway) EXCEPT !.dash = TRUE, !.right = TRUE],
   [SimInput0(FarAway) EXCEPT !.shooting = TRUE]}

InitDash ==
  /\ NoRooms
  /\ sim \in DashRooms

NextDash ==
  \/ \E s \in 1..2 : \E input \in DashInputs : OnPlayerInput(s, input)
  \/ \E dt \in TickLengths : TickStep(dt)

SpecDash == InitDash /\ [][NextDash]_vars

\* ---- scores over the life of a room
MaxKills == 1          \* enemies killed per room

\* _checkCollisions, the branch e.hp <= 0, for an enemy of type ty killed
\* by a bullet of the player of socket s
CreditShot(w, r, s, ty) ==
  LET score == ENEMY_STATS[ty].score
      w1 == [w EXCEPT !.heap[r].score = @ + score,
                      !.heap[r].enemiesKilledThisWave = @ + 1]
  IN IF HasPlayer(w.heap[r], s)
     THEN LET i == PlayerIndex(w.heap[r], s) IN
          [w1 EXCEPT !.heap[r].players[i].score = @ + score,
                     !.heap[r].players[i].kills = @ + 1]
     ELSE w1

\* The TICK_MS interval set by startGame, in a tick in which a bullet of
\* player s kills an enemy of type ty and no player falls
TickShot(r, h, s, ty) ==
  /\ <<r, h>> \in intervals
  /\ heap[r].state = "playing"
  /\ heap[r].enemiesKilledThisWave < MaxKills
  /\ s \in AlivePlayers(heap[r])
  /\ ty \in SpawnTypes(heap[r].wave) \cap SpawnBound
  /\ UNCHANGED connected
  /\ Commit(BroadcastState(
              CreditShot([World EXCEPT !.heap[r].tick = @ + 1], r, s, ty),
              r))

NextScore ==
  \/ \E s \in Sockets : OnCreateRoom(s)
  \/ \E s \in Sockets : \E code \in JoinPayloads : OnJoinRoom(s, code)
  \/ \E s \in Sockets : OnDisconnect(s)
  \/ \E i \in 1..(MaxRooms * NSock) : CountdownFire(i)
  \/ \E r \in RoomIds : \E h \in 1..NSock :
       \E s \in Sockets : \E ty \in SpawnBound : TickShot(r, h, s, ty)

SpecScore == Init /\ [][NextScore]_vars

\* ================================================= ingress: submitted input
\* A value a client sends, as far as the handlers tell values apart: its
\* type, its truth for a boolean, whether it is non-empty for a string,
\* and its number.
JsValue(t, b, n) == [t |-> t, b |-> b, n |-> n]
JsUndefined    == JsValue("undefined", FALSE, 0)
JsNull         == JsValue("null", FALSE, 0)
JsBool(b)      == JsValue("boolean", b, 0)
JsNumber(n)    == JsValue("number", FALSE, n)
JsString(full) == JsValue("string", full, 0)

\* typeof v
TypeOf(v) == IF v.t = "null" THEN "object" ELSE v.t

\* !!v
Truthy(v) ==
  CASE v.t = "boolean" -> v.b
    [] v.t = "number"  -> v.n # 0
    [] v.t = "string"  -> v.b
    [] v.t = "object"  -> TRUE
    [] OTHER           -> FALSE

InputFields ==
  {"up", "down", "left", "right", "shooting", "dash", "mouseX", "mouseY"}
NoFields == [k \in InputFields |-> JsUndefined]

\* the payload of an 'input' event: a value and, for an object, its fields
Payload(t, f) == [t |-> t, f |-> f]

\* the object the input handler passes to handleInput
ValidatedInput(payload) ==
  [up       |-> Truthy(payload.f.up),
   down     |-> Truthy(payload.f.down),
   left     |-> Truthy(payload.f.left),
   right    |-> Truthy(payload.f.right),
   shooting |-> Truthy(payload.f.shooting),
   dash     |-> Truthy(payload.f.dash),
   mouseX   |-> IF TypeOf(payload.f.mouseX) = "number"
                THEN payload.f.mouseX.n ELSE 0,
   mouseY   |-> IF TypeOf(payload.f.mouseY) = "number"
                THEN payload.f.mouseY.n ELSE 0]

\* the first room, in the order of the Map, that has player s; 0 if none
FirstRoomOf(rs, s) ==
  LET ks == {k \in DOMAIN rs : PlayerAt(rs[k], s) # 0} IN
  IF ks = {} THEN 0 ELSE CHOOSE k \in ks : \A j \in ks : k <= j

\* handleInput(socketId, input) on the rooms rs of the Map
HandleInput(rs, s, input) ==
  LET k == FirstRoomOf(rs, s) IN
  IF k = 0 THEN rs ELSE [rs EXCEPT ![k] = SimHandleInput(rs[k], s, input)]

\* socket.on('input'): the rooms it leaves and the error it raises.  A
\* property of null cannot be read.
InputEvent(rs, s, payload) ==
  IF TypeOf(payload) # "object"
  THEN [rooms |-> rs, raised |-> "none"]
  ELSE IF payload.t = "null"
       THEN [rooms |-> rs, raised |-> "TypeError"]
       ELSE [rooms |-> HandleInput(rs, s, ValidatedInput(payload)),
             raised |-> "none"]

\* ---- bounds of the simulation of two rooms
MaxRoomTick == 1       \* ticks per room

\* Room A is played by sockets 1 and 2, room B by sockets 3 and 1: socket 1
\* has joined B after creating A.  uid() is shared by the rooms: the rooms
\* are kept without a counter of their own, which is `nextId` of `sim`.
RoomsA ==
  {[SimRoom("tick", <<Host, Guest>>) EXCEPT
      !.enemies = <<SimEnemy(1, ty, NearX, MidY, FIRST_WAVE)>>,
      !.nextId = 0, !.spawnTimer = MAX_DT] :
     ty \in {"fast", "basic"}}

RoomB ==
  [SimRoom("tick", <<[SimPlayer(3, TRUE) EXCEPT !.hp = LowHp],
                     Fallen(SimPlayer(1, FALSE), 1, REVIVE_TIME)>>) EXCEPT
     !.enemies = <<SimEnemy(2, "basic", HOST_START_X, MidY, FIRST_WAVE)>>,
     !.nextId = 0, !.spawnTimer = 2000]

InputPayloads ==
  {Payload("number", NoFields), Payload("null", NoFields),
   Payload("object", [NoFields EXCEPT !.up = JsString(FALSE),
                                      !.left = JsNumber(0),
                                      !.mouseX = JsString(TRUE),
                                      !.mouseY = JsNull]),
   Payload("object", [NoFields EXCEPT !.up = JsBool(FALSE),
                                      !.shooting = JsNumber(1),
                                      !.dash = JsNull,
                                      !.mouseX = JsNumber(FarAway),
                                      !.mouseY = JsNumber(MidY)])}

InitRooms ==
  /\ NoRooms
  /\ sim \in {[kind |-> "rooms", rooms |-> rs, nextId |-> 3,
               raised |-> "none"] :
                rs \in {<<a>> : a \in RoomsA} \cup {<<a, RoomB>> : a \in RoomsA}}

\* socket.on('input') of socket s
SubmitInput(s, payload) ==
  /\ sim.kind = "rooms"
  /\ LET res == InputEvent(sim.rooms, s, payload) IN
     sim' = [sim EXCEPT !.rooms = res.rooms, !.raised = res.raised]
  /\ UNCHANGED lifecycle

\* the TICK_MS interval of room k.  An interval that startGame set and
\* nothing cleared keeps calling _tick after the game is over.
RoomTick(k, dt) ==
  /\ sim.kind = "rooms"
  /\ k \in DOMAIN sim.rooms
  /\ sim.rooms[k].state = "playing" => sim.rooms[k].n < MaxRoomTick
  /\ \E luck \in [{sim.rooms[k].enemies[j].id :
                     j \in DOMAIN sim.rooms[k].enemies} -> DropChoices] :
       \E sp \in SpawnChoices(sim.rooms[k]) :
         LET r == SimTick([sim.rooms[k] EXCEPT !.nextId = sim.nextId],
                          dt, luck, sp)
             n == IF sim.rooms[k].state = "playing" THEN 1 ELSE 0
         IN sim' = [sim EXCEPT !.rooms[k] = [r EXCEPT !.nextId = 0,
                                                      !.n = @ + n],
                               !.nextId = r.nextId,
                               !.raised = "none"]
  /\ UNCHANGED lifecycle

NextRooms ==
  \/ \E s \in Sockets : \E payload \in InputPayloads : SubmitInput(s, payload)
  \/ \E k \in 1..2 : \E dt \in TickLengths : RoomTick(k, dt)

SpecRooms == InitRooms /\ [][NextRooms]_vars


\* ==================================================== ingress: join events
\* The value of `code` in a join_room payload: what typeof and ! see of
\* it, and the code it spells if it is a string.
CodeValue(v, str) == [v |-> v, str |-> str]
NoCode == CodeValue(JsUndefined, EmptyString)

\* the payload of a join_room event: the value sent and its `code`
JoinPayload(t, code) == [t |-> t, code |-> code]

JoinEvents ==
  {JoinPayload("undefined", NoCode), JoinPayload("number", NoCode),
   JoinPayload("object", NoCode),
   JoinPayload("object", CodeValue(JsString(FALSE), EmptyString)),
   JoinPayload("object", CodeValue(JsNumber(0), EmptyString)),
   JoinPayload("object", CodeValue(JsNumber(1), EmptyString))}
  \cup {JoinPayload("object", CodeValue(JsString(TRUE), cs)) :
          cs \in CodeStrings}

\* an exception no handler catches
Uncaught(name) == Ev("uncaughtException", {}, 0, name)

\* socket.on('join_room', ({ code }) => ...): undefined and null cannot be
\* destructured, and only a string has toUpperCase
JoinRoomEvent(w, s, payload) ==
  IF payload.t \in {"undefined", "null"}
  THEN Emit(w, <<Uncaught("TypeError")>>)
  ELSE IF ~Truthy(payload.code.v)
       THEN Emit(w, <<Ev("error", {s}, 0, "Room code required")>>)
       ELSE IF TypeOf(payload.code.v) # "string"
            THEN Emit(w, <<Uncaught("TypeError")>>)
            ELSE HandleJoinRoom(w, s, payload.code.str)

\* a join_room event of socket s, answered or not
OnJoinRoomEvent(s, payload) ==
  /\ s \in connected
  /\ UNCHANGED connected
  /\ Commit(JoinRoomEvent(World, s, payload))

\* The handlers with every join_room event as a step, MaxLive registered
\* rooms at a time.
NextJoin ==
  \/ \E s \in Sockets : OnCreateRoomFair(s)
  \/ \E s \in Sockets : \E payload \in JoinEvents : OnJoinRoomEvent(s, payload)
  \/ \E s \in Sockets : OnDisconnect(s)
  \/ \E i \in 1..(MaxRooms * NSock) : CountdownFire(i)
  \/ \E i \in 1..(MaxRooms * NSock) : DestroyFire(i)
  \/ \E r \in RoomIds : \E h \in 1..NSock : Tick(r, h)

SpecJoin == Init /\ [][NextJoin]_vars


\* ================================================================ claims
IsRegistered(r) == \E c \in Codes : rooms[c] = r
RoomsInUse == {r \in DOMAIN heap : heap[r].state # "collected"}
CountdownsOf(r) ==
  {i \in DOMAIN timers : timers[i].kind = "countdown" /\ timers[i].room = r}
IntervalsOf(r) == {iv \in intervals : iv[1] = r}

\* C1: the registry never holds two live rooms with the same join code:
\* every entry holds a room created under that code, no two entries hold
\* rooms with the same code, and no step replaces the room of an entry by
\* another room.
C1_UniqueLiveCodes ==
  /\ [](\A c \in Registered :
          /\ heap[rooms[c]].code = c
          /\ \A d \in Registered :
               heap[rooms[d]].code = heap[rooms[c]].code => d = c)
  /\ [][\A c \in Codes :
          rooms[c] # None /\ rooms'[c] # None => rooms'[c] = rooms[c]]_vars

\* two rooms are registered at the same time
C1_Witness == Cardinality(Registered) = 2

\* C2: no transition leaves gameover: a room whose phase is gameover never
\* gets the phase waiting, countdown or playing again.
C2_GameoverIsTerminal ==
  [][\A r \in DOMAIN heap :
       heap[r].state = "gameover" =>
         heap'[r].state \notin {"waiting", "countdown", "playing"}]_vars

\* C3: startGame is never executed on a room that left the registry: no
\* unregistered room has phase playing or a running tick interval.
C3_NoGameOnRemovedRoom ==
  \A r \in RoomsInUse :
    ~IsRegistered(r) =>
      heap[r].state # "playing" /\ IntervalsOf(r) = {}

\* C4: the destruction timeout set at game over removes no room other
\* than the one that set it.
C4_DestroyOnlyOwnRoom ==
  [][\A i \in DOMAIN timers :
       DestroyFire(i) =>
         \A c \in Codes :
           rooms[c] # None /\ rooms'[c] = None =>
             rooms[c] = timers[i].room]_vars

\* C5: a join_room for a registered waiting room with exactly one occupant
\* succeeds; afterwards the room holds two players and its countdown has
\* been started.
C5_JoinSecond ==
  \A s \in connected : \A code \in CodeStrings :
    LET r == rooms[code.c] IN
    (r # None /\ heap[r].state = "waiting" /\ PlayerCount(heap[r]) = 1) =>
      LET w == HandleJoinRoom(World, s, code) IN
      /\ ~Rejected(w)
      /\ PlayerCount(w.heap[r]) = 2
      /\ w.timers = Append(timers, CountdownTimer(r))


\* C6: joinRoom names every failure: not found exactly when the code is not
\* registered; otherwise already started exactly when the phase is not
\* waiting; otherwise full exactly when the room holds two players; in
\* every other case the requester is admitted.
C6_JoinErrorClasses ==
  \A s \in connected : \A code \in CodeStrings :
    LET r   == rooms[code.c]
        res == JoinRoom(World, code, s)
    IN /\ res.error = "Room not found" <=> r = None
       /\ res.error = "Game already started" <=>
            (r # None /\ heap[r].state \in {"playing", "gameover"})
       /\ res.error = "Room is full" <=>
            (r # None /\ heap[r].state = "waiting"
                      /\ PlayerCount(heap[r]) = 2)
       /\ res.error = "none" <=>
            (r # None /\ heap[r].state = "waiting"
                      /\ PlayerCount(heap[r]) < 2)
       /\ res.error = "none" => res.room = r /\ HasPlayer(res.w.heap[r], s)

\* one registered room has started and another one is full and waiting
C6_Witness ==
  \E c, d \in Registered :
    /\ heap[rooms[c]].state = "playing"
    /\ heap[rooms[d]].state = "waiting"
    /\ PlayerCount(heap[rooms[d]]) = 2
    /\ connected # {}

\* C7: a join_room that fails leaves the registry, every room, the timers
\* and the tick intervals as they were and only reports the error to the
\* requester.
C7_FailedJoinChangesNothing ==
  \A s \in connected : \A code \in JoinPayloads :
    LET w == HandleJoinRoom(World, s, code) IN
    (code = EmptyString \/ JoinError(World, code) # "none") =>
      /\ w.rooms = rooms
      /\ w.heap = heap
      /\ w.timers = timers
      /\ w.intervals = intervals
      /\ Len(w.out) = 1
      /\ w.out[1].ev = "error"
      /\ w.out[1].to = {s}

\* an open connection asks to join a registered room that is full
C7_Witness ==
  \E s \in connected : \E c \in Registered :
    /\ ~HasPlayer(heap[rooms[c]], s)
    /\ JoinError(World, [c |-> c, lower |-> TRUE]) = "Room is full"

\* C8: every registered room holds at most 2 players.
C8_AtMostTwoPlayers ==
  \A c \in Registered : PlayerCount(heap[rooms[c]]) <= 2

\* a registered room holds two players
C8_Witness ==
  \E c \in Registered : PlayerCount(heap[rooms[c]]) = 2

\* C9: from the join of the second player until the countdown reaches zero
\* the phase is countdown, and a room in waiting phase holds 0 or 1 player.
C9_CountdownPhase ==
  \A c \in Registered :
    LET room == heap[rooms[c]] IN
    /\ room.state = "waiting" => PlayerCount(room) <= 1
    /\ (CountdownsOf(rooms[c]) # {} /\ PlayerCount(room) = 2) =>
         room.state = "countdown"


\* C10: in a room that nobody has left, the join of the second player
\* emits countdown 3 and sets the one countdown of the room; its firings
\* emit 2, then 1, and the next one makes the phase playing, starts the tick
\* interval and delivers game_start with wave 1 to both players; until then
\* the phase is waiting, no tick has run and no tick interval is running.
C10_CountdownThenStart ==
  /\ [](\A r \in RoomsInUse :
          ~heap[r].left =>
            /\ Cardinality(CountdownsOf(r)) <= 1
            /\ \A i \in CountdownsOf(r) :
                 /\ timers[i].countdown \in 1..COUNTDOWN_SECONDS
                 /\ heap[r].state = "waiting"
                 /\ PlayerCount(heap[r]) = 2
            /\ heap[r].state = "waiting" =>
                 heap[r].tick = 0 /\ IntervalsOf(r) = {}
            /\ heap[r].state = "playing" =>
                 CountdownsOf(r) = {} /\ PlayerCount(heap[r]) = 2)
  /\ [][\A r \in RoomsInUse :
          ~heap[r].left /\ ~heap'[r].left =>
            \* the countdown is set by the join that brings the second player
            /\ (CountdownsOf(r) = {} /\ heap[r].state = "waiting"
                  /\ PlayerCount(heap[r]) < 2 /\ PlayerCount(heap'[r]) = 2) =>
                 /\ \E i \in DOMAIN timers' :
                      timers'[i] = CountdownTimer(r)
                 /\ out'[Len(out')] =
                      IoEmit(heap[r].code, "countdown", COUNTDOWN_SECONDS)
            \* each firing announces the next second, the last one starts
            /\ \A i \in CountdownsOf(r) :
                 CountdownFire(i) =>
                   IF timers[i].countdown > 1
                   THEN /\ out' = <<IoEmit(heap[r].code, "countdown",
                                           timers[i].countdown - 1)>>
                        /\ heap'[r] = heap[r]
                        /\ \E j \in CountdownsOf(r)' :
                             timers'[j].countdown = timers[i].countdown - 1
                   ELSE /\ heap'[r].state = "playing"
                        /\ heap'[r].intervalId # None
                        /\ <<r, heap'[r].intervalId>> \in intervals'
                        /\ out' = <<Ev("game_start", PlayerIds(heap[r]),
                                       FIRST_WAVE, "")>>
                        /\ Cardinality(PlayerIds(heap[r])) = 2]_vars

\* a room nobody has left is playing with its tick interval running
C10_Witness ==
  \E r \in RoomsInUse :
    /\ ~heap[r].left
    /\ heap[r].state = "playing"
    /\ IntervalsOf(r) # {}
    /\ PlayerCount(heap[r]) = 2


\* the room leaveRoom(s) finds: the first in the Map's order that holds s
RoomOf(s) == rooms[FirstKey(World, KeysWithPlayer(World, s))]
InSomeRoom(s) == KeysWithPlayer(World, s) # {}
DestroyTimersOf(r) == {i \in DOMAIN timers : timers[i] = DestroyTimer(r)}

\* C11: leaveRoom removes the player of the leaving connection; if that
\* leaves the room empty, the room is removed from the registry and no tick
\* interval of it keeps running; every registered room holds a player.
C11_LeaveEmptiesAndDestroys ==
  /\ [](\A c \in Registered : PlayerCount(heap[rooms[c]]) >= 1)
  /\ [][\A s \in Sockets :
          (OnDisconnect(s) /\ InSomeRoom(s)) =>
            LET r == RoomOf(s) IN
            /\ ~HasPlayer(heap'[r], s)
            /\ PlayerCount(heap[r]) = 1 =>
                 /\ \A c \in Codes : rooms'[c] # r
                 /\ {iv \in intervals' : iv[1] = r} = {}]_vars

\* C12: when a player leaves a playing room in which another player stays,
\* that player gets partner_left, the room becomes gameover with reason
\* partner_disconnected and no tick interval of it keeps running; a leave
\* in another phase does not change the phase.
C12_LeaveWhilePlaying ==
  [][\A s \in Sockets :
       (OnDisconnect(s) /\ InSomeRoom(s)) =>
         LET r    == RoomOf(s)
             rest == PlayerIds(heap[r]) \ {s}
         IN PlayerCount(heap[r]) > 1 =>
              IF heap[r].state = "playing"
              THEN /\ heap'[r].state = "gameover"
                   /\ out' = <<Ev("partner_left", rest, 0, ""),
                               Ev("game_over", rest, heap[r].wave,
                                  "partner_disconnected")>>
                   /\ {iv \in intervals' : iv[1] = r} = {}
              ELSE heap'[r].state = heap[r].state]_vars

\* C13: no registered room holds a connection whose disconnect has been
\* processed.
C13_NoPlayerAfterDisconnect ==
  \A c \in Registered : PlayerIds(heap[rooms[c]]) \subseteq connected

\* C14: a registered room that is gameover is eventually not registered.
C14_GameoverEventuallyRemoved ==
  \A r \in RoomIds :
    (r \in DOMAIN heap /\ heap[r].state = "gameover" /\ IsRegistered(r))
      ~> ~IsRegistered(r)

\* a registered room is gameover and its destruction timeout is the next
\* timer due
C14_Witness ==
  \E r \in RoomsInUse :
    /\ heap[r].state = "gameover"
    /\ IsRegistered(r)
    /\ PlayerCount(heap[r]) >= 1
    /\ timers # <<>>
    /\ timers[1] = DestroyTimer(r)

\* C15: a tick that leaves every player of the room not alive makes the
\* room gameover with reason all_dead, and a room becomes gameover (and
\* emits game_over) once: never again while the destruction timeout of an
\* earlier game over is pending.
C15_GameOverOnce ==
  /\ [][\A r \in DOMAIN heap : \A h \in 1..NSock :
          (Tick(r, h) /\ PlayerCount(heap'[r]) >= 1
                      /\ AlivePlayers(heap'[r]) = {}) =>
            /\ heap'[r].state = "gameover"
            /\ \E k \in DOMAIN out' :
                 out'[k] = Ev("game_over", PlayerIds(heap[r]),
                              heap[r].wave, "all_dead")]_vars
  /\ [][\A r \in DOMAIN heap :
          (heap[r].state # "gameover" /\ heap'[r].state = "gameover") =>
            DestroyTimersOf(r) = {}]_vars

\* C16: every player is inside the arena by its radius, initially and
\* after every input and tick.
C16_PlayerInsideArena ==
  sim.kind = "move" =>
    \A i \in DOMAIN sim.players :
      /\ sim.players[i].x >= PLAYER_RADIUS
      /\ sim.players[i].x <= CANVAS_W - PLAYER_RADIUS
      /\ sim.players[i].y >= PLAYER_RADIUS
      /\ sim.players[i].y <= CANVAS_H - PLAYER_RADIUS

\* a dash has carried a player against the left and the top wall
C16_Witness ==
  /\ sim.kind = "move"
  /\ sim.n > 0
  /\ \E i \in DOMAIN sim.players :
       /\ sim.players[i].isDashing
       /\ sim.players[i].x = PLAYER_RADIUS
       /\ sim.players[i].y = PLAYER_RADIUS
       /\ Move(sim.players[i], MAX_DT).x < PLAYER_RADIUS

BulletsOf(room, s) ==
  SelectSeq(room.bullets, LAMBDA b : b.ownerId = s)
Offsets(bs) == [i \in DOMAIN bs |-> bs[i].off]

\* C17: a living player with the shooting flag set whose cooldown has
\* decayed to zero fires as many bullets as its weapon level, with the
\* offsets 0, then -a and +a, then -b, 0 and +b with b > a > 0; a player
\* whose cooldown has not decayed to zero, or who is not alive or not
\* shooting, fires none.
C17_BulletsPerShot ==
  /\ SPREAD_3 > SPREAD_2 /\ SPREAD_2 > 0
  /\ [][\A dt \in TickLengths :
          UpdatePlayersStep(dt) =>
            \A i \in DOMAIN sim.players :
              LET p   == sim.players[i]
                  new == SubSeq(BulletsOf(sim', p.socketId),
                                Len(BulletsOf(sim, p.socketId)) + 1,
                                Len(BulletsOf(sim', p.socketId)))
              IN IF p.alive /\ p.input.shooting /\ p.shootCooldown - dt <= 0
                 THEN /\ Len(new) = p.weaponLevel
                      /\ Offsets(new) =
                           CASE p.weaponLevel = 1 -> <<0>>
                             [] p.weaponLevel = 2 -> <<-SPREAD_2, SPREAD_2>>
                             [] p.weaponLevel = 3 ->
                                  <<-SPREAD_3, 0, SPREAD_3>>
                 ELSE new = <<>>]_vars

\* a player has fired, waited out a tick with the flag set, and fired again
C17_Witness ==
  /\ sim.kind = "shoot"
  /\ \E i \in DOMAIN sim.players :
       /\ sim.players[i].weaponLevel = 2
       /\ sim.n >= 3
       /\ Len(sim.bullets) = 4
       /\ sim.players[i].input.shooting

\* the room of a tick of length dt when _checkCollisions is called
BeforeCollisions(room, dt) ==
  UpdateEnemies(
    UpdateBullets(
      SimUpdatePlayers([room EXCEPT !.tick = @ + 1, !.events = <<>>], dt, 1),
      dt),
    dt)

BulletIds(room) == {room.bullets[k].id : k \in DOMAIN room.bullets}
LiveEnemyIds(room) ==
  {room.enemies[j].id : j \in {k \in DOMAIN room.enemies :
                                 room.enemies[k].alive}}

\* the sum of f[j] over the indices j of f that are in S
SumIn(f, S) ==
  LET Sum[j \in 0..Len(f)] ==
        IF j = 0 THEN 0
        ELSE Sum[j - 1] + (IF j \in S THEN f[j] ELSE 0)
  IN Sum[Len(f)]

\* C18: in the tick in which bullet hits bring the HP of an enemy to 0 or
\* below, the enemy is marked dead and is not in the snapshot, every bullet
\* that hit is consumed, the room score grows by the score values of the
\* enemies killed and the coins by half of each, rounded down, and the
\* players that fired the bullets are credited the same score and one kill
\* per enemy; a dead enemy is never credited or shown again.
C18_KillCredit ==
  /\ [](sim.kind = "tick" =>
          /\ \A j \in DOMAIN sim.enemies :
               sim.enemies[j].hp <= 0 => ~sim.enemies[j].alive
          /\ sim.snapshot.enemies \subseteq LiveEnemyIds(sim))
  /\ [][\A dt \in TickLengths :
          TickStep(dt) =>
            LET pre    == BeforeCollisions(sim, dt)
                post   == sim'
                E      == DOMAIN pre.enemies
                P      == DOMAIN pre.players
                killed == {j \in E : pre.enemies[j].alive
                                      /\ post.enemies[j].hp <= 0}
                used   == BulletIds(pre) \ BulletIds(post)
                owners == {pre.bullets[k].ownerId :
                             k \in {m \in DOMAIN pre.bullets :
                                      pre.bullets[m].id \in used}}
                scores == [j \in E |-> pre.enemies[j].score]
                halves == [j \in E |-> pre.enemies[j].score \div 2]
                damage == [j \in E |-> pre.enemies[j].hp - post.enemies[j].hp]
                gain   == [i \in P |-> post.players[i].score
                                       - pre.players[i].score]
                kills  == [i \in P |-> post.players[i].kills
                                       - pre.players[i].kills]
            IN /\ \A j \in killed :
                    /\ ~post.enemies[j].alive
                    /\ post.enemies[j].id \notin post.snapshot.enemies
               /\ Cardinality(used) * BULLET_DAMAGE = SumIn(damage, E)
               /\ post.score - pre.score = SumIn(scores, killed)
               /\ post.coins - pre.coins = SumIn(halves, killed)
               /\ SumIn(gain, P) = SumIn(scores, killed)
               /\ SumIn(kills, P) = Cardinality(killed)
               /\ \A i \in P : kills[i] > 0 =>
                                 pre.players[i].socketId \in owners
               /\ \A j \in DOMAIN sim.enemies :
                    ~sim.enemies[j].alive =>
                      sim.enemies[j].id \notin LiveEnemyIds(post)]_vars

\* two bullets of one shot have killed two enemies in one tick, one of
\* them with its HP at exactly 0
C18_Witness ==
  /\ sim.kind = "tick"
  /\ Len(sim.enemies) >= 2
  /\ ~sim.enemies[1].alive /\ sim.enemies[1].hp = 0
  /\ ~sim.enemies[2].alive
  /\ sim.score = 2 * ENEMY_STATS["fast"].score
  /\ sim.coins = 2 * (ENEMY_STATS["fast"].score \div 2)
  /\ sim.players[1].kills = 2
  /\ sim.snapshot.enemies = {}

\* C19: a player whose health drops to 0 or below is not alive, has health
\* 0 and a revive countdown of 10 s; when the countdown elapses in a tick
\* the player is alive again with half of its current max health.
C19_ReviveHalfMaxHp ==
  /\ [](sim.kind = "tick" =>
          \A i \in DOMAIN sim.players :
            sim.players[i].hp <= 0 =>
              ~sim.players[i].alive /\ sim.players[i].hp = 0)
  /\ [][\A dt \in TickLengths :
          TickStep(dt) =>
            \A i \in DOMAIN sim.players :
              LET p == sim.players[i]
                  q == sim'.players[i]
              IN /\ (p.alive /\ ~q.alive) => q.reviveTimer = REVIVE_TIME
                 /\ (~p.alive /\ p.reviveTimer > 0
                              /\ p.reviveTimer - dt <= 0) =>
                      q.alive /\ 2 * q.hp = q.maxHp]_vars

Entities(room) == [room EXCEPT !.players = <<>>]
Body(p) == [p EXCEPT !.input = SimInput0(0)]

\* ---- C21: routeInput (handleInput) changes only the stored input of the
\* player of the sending connection, in the first room that has it, and
\* sets exactly the recognized fields; a connection in no room changes
\* nothing; every other player, every entity, every room's phase and
\* counters, and the id counter stay as they are.
C21_InputFrame ==
  [][\A s \in Sockets : \A payload \in InputPayloads :
       SubmitInput(s, payload) =>
         LET k == FirstRoomOf(sim.rooms, s) IN
         /\ sim'.nextId = sim.nextId
         /\ DOMAIN sim'.rooms = DOMAIN sim.rooms
         /\ \A j \in DOMAIN sim.rooms :
              /\ Entities(sim'.rooms[j]) = Entities(sim.rooms[j])
              /\ DOMAIN sim'.rooms[j].players = DOMAIN sim.rooms[j].players
              /\ \A i \in DOMAIN sim.rooms[j].players :
                   LET p == sim.rooms[j].players[i]
                       q == sim'.rooms[j].players[i]
                   IN /\ Body(q) = Body(p)
                      /\ q.input # p.input =>
                           /\ j = k /\ p.socketId = s
                           /\ DOMAIN q.input = InputFields
                           /\ q.input.up = Truthy(payload.f.up)
                           /\ q.input.shooting = Truthy(payload.f.shooting)
                           /\ q.input.dash = Truthy(payload.f.dash)
                           /\ q.input.mouseX \in {0, payload.f.mouseX.n}
                           /\ q.input.mouseY \in {0, payload.f.mouseY.n}
         /\ k = 0 => sim'.rooms = sim.rooms]_vars

\* socket 1 plays in both rooms: its input has reached room A and not room
\* B, an input of socket 3 has reached room B, and room A has ticked
C21_Witness ==
  /\ sim.kind = "rooms"
  /\ Len(sim.rooms) = 2
  /\ sim.rooms[1].players[1].input.shooting
  /\ sim.rooms[2].players[1].input.mouseX = 0
  /\ sim.rooms[2].players[2].input = SimInput0(GUEST_START_X)
  /\ sim.rooms[1].n = 1

\* ---- C22: whatever the payload of an input event (not an object, null,
\* an object with missing or wrong-typed fields), the handler raises no
\* exception, every stored input has boolean flags and numeric pointer
\* coordinates, and no player but the sender's is affected.
C22_InputNeverThrows ==
  [][\A s \in Sockets : \A payload \in InputPayloads :
       SubmitInput(s, payload) =>
         /\ sim'.raised = "none"
         /\ \A j \in DOMAIN sim'.rooms :
              \A i \in DOMAIN sim'.rooms[j].players :
                LET q == sim'.rooms[j].players[i] IN
                /\ q.socketId # s => q = sim.rooms[j].players[i]
                /\ \A f \in {"up", "down", "left", "right", "shooting",
                             "dash"} : q.input[f] \in BOOLEAN
                /\ q.input.mouseX \in Int /\ q.input.mouseY \in Int]_vars

\* a join_room event without a usable code: no payload, no code, an empty
\* code, a code that is not a string
MalformedJoins ==
  {payload \in JoinEvents :
     payload.t # "object" \/ TypeOf(payload.code.v) # "string"
                          \/ ~Truthy(payload.code.v)}

\* ---- C23: a join_room event with a missing or malformed code (no
\* payload, an empty code, a code that is not a string) raises no exception:
\* it is answered by one error to the requesting connection and leaves the
\* registry, the rooms and their timers as they were.
C23_MalformedJoinRejected ==
  [][\A s \in Sockets : \A payload \in MalformedJoins :
       OnJoinRoomEvent(s, payload) =>
         /\ Len(out') = 1
         /\ out'[1].ev = "error" /\ out'[1].to = {s}
         /\ rooms' = rooms /\ heap' = heap
         /\ timers' = timers /\ intervals' = intervals]_vars

\* every registered room but room r keeps its registration, its state and
\* its tick intervals in the step
OthersKept(r) ==
  \A c \in Codes :
    rooms[c] # None /\ rooms[c] # r =>
      /\ rooms'[c] = rooms[c]
      /\ heap'[rooms[c]] = heap[rooms[c]]
      /\ {iv \in intervals' : iv[1] = rooms[c]} = IntervalsOf(rooms[c])

\* ---- C24: rooms are isolated: a tick, a join, a leave, a countdown or
\* start, a game over or the destruction of one room leaves every other
\* registered room's phase, players, counters and tick scheduler as they
\* were.
C24_RoomsIsolated ==
  [][/\ \A r \in RoomIds : \A h \in 1..NSock : Tick(r, h) => OthersKept(r)
     /\ \A s \in Sockets : \A code \in JoinPayloads :
          OnJoinRoom(s, code) =>
            OthersKept(RoomsGet(rooms, ToUpperCase(code)))
     /\ \A s \in Sockets :
          OnDisconnect(s) =>
            OthersKept(IF InSomeRoom(s) THEN RoomOf(s) ELSE None)
     /\ \A i \in DOMAIN timers :
          CountdownFire(i) \/ DestroyFire(i) => OthersKept(timers[i].room)
    ]_vars

\* bullet b and enemy e overlap
Touches(b, e) ==
  Dist2(b, e) < (BULLET_RADIUS + e.radius) * (BULLET_RADIUS + e.radius)

InContact(p, e) ==
  Dist2(p, e) < (PLAYER_RADIUS + e.radius) * (PLAYER_RADIUS + e.radius)

\* what a tick of a room (before), with the id counter at next, must have
\* left (after) if its phases ran in the order of _tick
PhasesInOrder(before, after, next, dt) ==
  LET Fresh(x) == x.id >= next IN
  /\ after.tick = before.tick + 1
  \* a bullet fired in the tick has flown for dt from where its owner
  \* stands after moving: player update, then bullet update
  /\ \A i \in DOMAIN after.bullets :
       LET b == after.bullets[i] IN
       Fresh(b) =>
         LET p == after.players[PlayerAt(after, b.ownerId)] IN
         /\ b.x = p.x + (b.vx * dt) \div 1000
         /\ b.y = p.y + (b.vy * dt) \div 1000
         /\ b.life = BULLET_LIFE - dt
  \* the collisions saw the moved bullets, enemies and players: no bullet
  \* is left on an enemy that is alive, and a player standing on a living
  \* enemy has taken its damage
  /\ \A j \in DOMAIN after.enemies :
       LET e == after.enemies[j] IN
       e.alive /\ ~Fresh(e) =>
         /\ \A i \in DOMAIN after.bullets : ~Touches(after.bullets[i], e)
         /\ \A i \in DOMAIN after.players :
              before.players[i].alive /\ InContact(after.players[i], e) =>
                \/ ~after.players[i].alive
                \/ after.players[i].hp < before.players[i].hp
                \/ \E ev \in {after.events[n] : n \in DOMAIN after.events} :
                     ev[1] = "powerup_collected"
  \* a powerup dropped by a kill of the tick has aged by dt: collision
  \* resolution, then powerup update
  /\ \A i \in DOMAIN after.powerups :
       Fresh(after.powerups[i]) =>
         after.powerups[i].life = POWERUP_LIFE - dt
  \* the enemy the wave update spawned has neither moved nor been hit
  /\ \A j \in DOMAIN after.enemies :
       LET e == after.enemies[j] IN
       Fresh(e) => e.x = -SPAWN_MARGIN /\ e.hp = e.maxHp /\ e.alive
  \* the broadcast shows the room as the wave update left it
  /\ after.snapshot.enemies =
       {after.enemies[j].id :
          j \in {n \in DOMAIN after.enemies : after.enemies[n].alive}}
  /\ \A i \in DOMAIN after.players :
       /\ after.snapshot.players[i].hp = after.players[i].hp
       /\ after.snapshot.players[i].alive = after.players[i].alive
  /\ after.snapshot.score = after.score
  /\ after.snapshot.wave = after.wave

\* ---- C25: a tick of a playing room runs player update, bullet update,
\* enemy update, collision resolution, powerup update, wave update and the
\* state broadcast in this order, so that the collisions see the positions
\* moved in this tick and the later phases see its kills; a tick of a room
\* that is not playing changes nothing and broadcasts nothing.
C25_TickPhaseOrder ==
  [][\A k \in DOMAIN sim.rooms : \A dt \in TickLengths :
       IF sim.rooms[k].state = "playing"
       THEN sim'.rooms[k].n > sim.rooms[k].n /\ RoomTick(k, dt) =>
              PhasesInOrder(sim.rooms[k], sim'.rooms[k], sim.nextId, dt)
       ELSE RoomTick(k, dt) =>
              /\ sim'.rooms = sim.rooms
              /\ sim'.nextId = sim.nextId]_vars

\* the host of room A has shot and killed the enemy with a bullet fired in
\* the same tick, the kill has dropped a powerup, an enemy has spawned,
\* and room B is over
C25_Witness ==
  /\ sim.kind = "rooms"
  /\ Len(sim.rooms) = 2
  /\ sim.rooms[1].n = 1
  /\ sim.rooms[1].players[1].kills = 1
  /\ Len(sim.rooms[1].powerups) = 1
  /\ Len(sim.rooms[1].enemies) = 2
  /\ sim.rooms[2].state = "gameover"

\* ---- C26: whenever a tick of a playing room after the 60th sees no
\* living enemy while the players' kills add up to at least 8 + 3 * wave,
\* the wave is cleared: the 5-second break begins and wave_clear with the
\* next wave number is emitted.
C26_WaveCleared ==
  [][\A dt \in TickLengths :
       TickStep(dt) =>
         LET seen == {j \in DOMAIN sim'.enemies :
                        /\ sim'.enemies[j].alive
                        /\ sim'.enemies[j].id < sim.nextId}
         IN (/\ sim.waveClearTimer = 0
             /\ sim'.state = "playing"
             /\ sim'.tick > WAVE_WARMUP
             /\ seen = {}
             /\ TotalKills(sim') >=
                  WAVE_KILLS_BASE + sim.wave * WAVE_KILLS_STEP) =>
              /\ sim'.waveClearTimer = WAVE_BREAK_TIME
              /\ \E n \in DOMAIN sim'.events :
                   sim'.events[n] = <<"wave_clear", sim.wave, sim.wave + 1>>
    ]_vars

\* ---- C27: at most one tick scheduler is active for a room at any time:
\* startGame runs at most once per room, whatever the order of joins,
\* leaves and countdown timers.
C27_OneSchedulerPerRoom ==
  \A r \in RoomsInUse :
    /\ heap[r].started <= 1
    /\ Cardinality(IntervalsOf(r)) <= 1

\* ---- C28: a room becomes playing only while it holds exactly two
\* players: a countdown during which a player left does not end in a game
\* for the player that stayed.
C28_StartNeedsTwoPlayers ==
  [][\A r \in DOMAIN heap :
       heap[r].state # "playing" /\ heap'[r].state = "playing" =>
         PlayerCount(heap'[r]) = 2]_vars

\* ---- C29: every connection is a player of at most one registered room,
\* whatever create_room and join_room events it sends.
C29_OneRoomPerConnection ==
  \A s \in Sockets : Cardinality(KeysWithPlayer(World, s)) <= 1

EnemyIds(room) == {room.enemies[j].id : j \in DOMAIN room.enemies}
WaveStarts(room) ==
  {n \in DOMAIN room.events : room.events[n][1] = "wave_start"}

\* ---- C30: while the break after a wave is running no enemy is spawned
\* and the spawn countdown does not change; only the break's countdown
\* goes down, and when it reaches zero the wave number goes up by one and
\* wave_start with the new wave number is emitted exactly once.
C30_BreakThenNextWave ==
  [][\A dt \in TickLengths :
       TickStep(dt) /\ sim.waveClearTimer > 0 =>
         /\ sim'.spawnTimer = sim.spawnTimer
         /\ EnemyIds(sim') \subseteq EnemyIds(sim)
         /\ sim'.enemiesKilledThisWave \in {0, sim.enemiesKilledThisWave}
         /\ IF sim.waveClearTimer - dt > 0
            THEN /\ sim'.waveClearTimer = sim.waveClearTimer - dt
                 /\ sim'.wave = sim.wave
                 /\ WaveStarts(sim') = {}
            ELSE /\ sim'.waveClearTimer = 0
                 /\ sim'.wave = sim.wave + 1
                 /\ sim'.enemiesKilledThisWave = 0
                 /\ Cardinality(WaveStarts(sim')) = 1
                 /\ \A n \in WaveStarts(sim') :
                      sim'.events[n] = <<"wave_start", sim.wave + 1>>]_vars

\* a break with 100 ms left has gone through a tick of 33 ms and has ended
\* in the second tick: wave 2 has begun with no enemy spawned meanwhile
C30_Witness ==
  /\ sim.kind = "tick"
  /\ sim.n = 2
  /\ sim.wave = FIRST_WAVE + 1
  /\ WaveStarts(sim) # {}
  /\ sim.waveClearTimer = 0
  /\ sim.spawnTimer = 0
  /\ sim.enemies = <<>>

\* C31: a room never has more than MAX_ENEMIES (60) live enemies; a tick
\* adds at most one enemy, and only if fewer than 60 enemies were alive
\* when its wave update looked.
C31_EnemyCap ==
  /\ [](sim.kind = "tick" => AliveEnemies(sim) <= MAX_ENEMIES)
  /\ [][sim.kind = "tick" /\ sim'.n > sim.n =>
         LET new  == EnemyIds(sim') \ EnemyIds(sim)
             seen == Cardinality({j \in DOMAIN sim'.enemies :
                                    /\ sim'.enemies[j].alive
                                    /\ sim'.enemies[j].id \notin new})
         IN /\ Cardinality(new) <= 1
            /\ new # {} => seen < MAX_ENEMIES]_vars

\* a room at the cap in which a tick has killed one enemy and spawned one
C31_Witness ==
  /\ sim.kind = "tick"
  /\ sim.n >= 1
  /\ AliveEnemies(sim) = MAX_ENEMIES
  /\ Len(sim.enemies) = MAX_ENEMIES + 1
  /\ ~sim.enemies[1].alive

\* C32: as long as the 8 s of a shield pickup have not elapsed (its timeout
\* is pending), the collector's shield flag is set; the timeout of an
\* earlier pickup does not clear the shield of a later one.
C32_ShieldOutlastsEarlierTimer ==
  sim.kind = "tick" =>
    \A k \in DOMAIN sim.timeouts :
      sim.players[PlayerAt(sim, sim.timeouts[k])].shield

\* the powerups whose pickup the events of the last step report
Pickups(room) ==
  {n \in DOMAIN room.events : room.events[n][1] = "powerup_collected"}

\* C33: weapon level, speed level and max-HP level of every player are in
\* 1..3 and maxHp is 100 + 20 * (maxHpLevel - 1); a tick in which a player
\* collects an upgrade whose level is already 3 leaves the three levels
\* and maxHp of that player as they were.
C33_LevelsCapped ==
  /\ [](sim.kind = "tick" =>
          \A i \in DOMAIN sim.players :
            LET p == sim.players[i] IN
            /\ p.weaponLevel \in 1..MAX_LEVEL
            /\ p.speedLevel \in 1..MAX_LEVEL
            /\ p.maxHpLevel \in 1..MAX_LEVEL
            /\ p.maxHp = HP(PLAYER_MAX_HP + MAXHP_GAIN * (p.maxHpLevel - 1)))
  /\ [][sim.kind = "tick" /\ sim'.n > sim.n =>
         \A i \in DOMAIN sim.players :
           LET p == sim.players[i]
               q == sim'.players[i]
               AtCap(ty) == \/ ty = "weapon"  /\ p.weaponLevel = MAX_LEVEL
                            \/ ty = "speedup" /\ p.speedLevel = MAX_LEVEL
                            \/ ty = "maxhp"   /\ p.maxHpLevel = MAX_LEVEL
           IN (/\ Cardinality(Pickups(sim')) = 1
               /\ \E n \in Pickups(sim') :
                    /\ sim'.events[n][2] = p.socketId
                    /\ AtCap(sim'.events[n][3])) =>
                /\ q.weaponLevel = p.weaponLevel
                /\ q.speedLevel = p.speedLevel
                /\ q.maxHpLevel = p.maxHpLevel
                /\ q.maxHp = p.maxHp]_vars

\* the host has collected a second max-HP upgrade at level 3
C33_Witness ==
  /\ sim.kind = "tick"
  /\ sim.powerups = <<>>
  /\ \E n \in Pickups(sim) : sim.events[n] = <<"powerup_collected", 1, "maxhp">>
  /\ sim.players[1].maxHpLevel = MAX_LEVEL
  /\ sim.players[1].maxHp = HP(PLAYER_MAX_HP + 2 * MAXHP_GAIN)

\* C34: the first tick after a dash request consumes it, whatever comes of
\* it: after every tick no player's input holds a dash request, so a
\* request can start a dash in that tick only.
C34_DashConsumedByNextTick ==
  [][sim.kind = "tick" /\ sim'.n > sim.n =>
       \A i \in DOMAIN sim'.players : ~sim'.players[i].input.dash]_vars

\* C35: a tick in which a player is dashing (dash duration > 0 when the
\* collisions are resolved) does not reduce the player's health and does
\* not kill the player.
C35_DashInvulnerable ==
  [][sim.kind = "tick" /\ sim'.n > sim.n =>
       \A i \in DOMAIN sim.players :
         LET p == sim.players[i]
             q == sim'.players[i]
         IN (p.alive /\ q.dashDuration > 0) =>
              q.alive /\ q.hp >= p.hp]_vars

\* C36: the health a living player loses in a tick of length dt to the
\* enemies touching it is their contact damage per second times dt, times
\* 0.4 if the player is shielded (health is in 1/10000, dt in ms; dt is
\* read off the spawn countdown, which a tick without a spawn lowers by dt).
C36_ContactDamageScalesWithDt ==
  [][(/\ sim.kind = "tick" /\ sim'.n > sim.n
      /\ sim'.spawnTimer < sim.spawnTimer
      /\ Pickups(sim') = {}) =>
       LET dt     == sim.spawnTimer - sim'.spawnTimer
           damage == [j \in DOMAIN sim'.enemies |-> sim'.enemies[j].damage]
       IN \A i \in DOMAIN sim.players :
            LET p == sim.players[i]
                q == sim'.players[i]
                T == {j \in DOMAIN sim'.enemies :
                        sim'.enemies[j].alive /\ InContact(q, sim'.enemies[j])}
            IN (p.alive /\ q.alive) =>
                 p.hp - q.hp =
                   SumIn(damage, T) * dt * (IF p.shield THEN 4 ELSE 10)]_vars

\* the ids of the enemies that die in the step from room to next
DiedIn(room, next) ==
  {next.enemies[j].id :
     j \in {k \in DOMAIN next.enemies :
              /\ ~next.enemies[k].alive
              /\ next.enemies[k].id \in LiveEnemyIds(room)}}

SumOver(ps, f(_)) ==
  LET Sum[i \in 0..Len(ps)] == IF i = 0 THEN 0 ELSE Sum[i - 1] + f(ps[i])
  IN Sum[Len(ps)]

PlayerScore(p) == p.score
PlayerKills(p) == p.kills

\* C38: in a playing room of the registry the room score is the sum of the scores of the
\* players in the room, and the sum of their kills is the number of
\* enemies killed in the match (no wave has been cleared: the per-wave
\* counter of the first wave).
C38_ScoreIsSumOfPlayers ==
  \A r \in RoomsInUse :
    (IsRegistered(r) /\ heap[r].state = "playing"
                     /\ heap[r].wave = FIRST_WAVE) =>
      /\ heap[r].score = SumOver(heap[r].players, PlayerScore)
      /\ heap[r].enemiesKilledThisWave = SumOver(heap[r].players, PlayerKills)

\* C39: a tick that emits game_over emits nothing of the simulation after
\* it: no wave_start, wave_clear, player_died, player_revived,
\* powerup_collected or nuke event follows it, and no state snapshot is
\* sent (the last snapshot sent stays the one of an earlier tick).
C39_GameOverIsLast ==
  [][sim.kind = "tick" /\ sim'.n > sim.n =>
       \A n \in DOMAIN sim'.events :
         sim'.events[n][1] = "game_over" =>
           /\ \A m \in DOMAIN sim'.events :
                m > n => sim'.events[m][1] \notin
                           {"wave_start", "wave_clear", "player_died",
                            "player_revived", "powerup_collected", "nuke"}
           /\ sim'.snapshot = sim.snapshot]_vars

\* C40: between ticks every player has 0 <= hp <= maxHp, is alive exactly
\* when hp > 0, and has a revive countdown above zero when not alive; a
\* player that is not alive when a tick begins does not move or fire in
\* it, and a player that is not alive when it ends has taken no damage
\* and collected no powerup while dead.
C40_DeadPlayersAreInert ==
  /\ [](sim.kind = "tick" =>
          \A i \in DOMAIN sim.players :
            LET p == sim.players[i] IN
            /\ 0 <= p.hp /\ p.hp <= p.maxHp
            /\ p.alive <=> p.hp > 0
            /\ ~p.alive => p.reviveTimer > 0)
  /\ [][sim.kind = "tick" /\ sim'.n > sim.n =>
         \A i \in DOMAIN sim.players :
           LET p == sim.players[i]
               q == sim'.players[i]
           IN /\ ~p.alive =>
                   /\ q.x = p.x /\ q.y = p.y
                   /\ \A k \in DOMAIN sim'.bullets :
                        sim'.bullets[k].id >= sim.nextId =>
                          sim'.bullets[k].ownerId # p.socketId
              /\ (~p.alive /\ ~q.alive) => q.hp = p.hp
              /\ ~q.alive =>
                   \A n \in Pickups(sim') :
                     sim'.events[n][2] # q.socketId]_vars

\* the host fell in the first tick, on an enemy, and has lain through the
\* second with a movement key held, in contact with the enemy
C40_Witness ==
  /\ sim.kind = "tick"
  /\ sim.n = 2
  /\ sim.state = "playing"
  /\ ~sim.players[1].alive /\ sim.players[1].hp = 0
  /\ sim.players[1].reviveTimer < REVIVE_TIME
  /\ sim.players[1].input.right
  /\ sim.players[1].x = HOST_START_X + DashReach
  /\ sim.enemies[1].alive /\ InContact(sim.players[1], sim.enemies[1])
====
